---- MODULE Spec2Model ----
(***************************************************************************)
(* Model of the tag / client membership core of lunaria                    *)
(* (src/src/objects/tag.c).                                                *)
(*                                                                         *)
(* The program state is the tag objects' fields (activated, selected,      *)
(* clients), the number of references the C core holds on each tag, and    *)
(* the global tag array globalconf.tags.  Every call into the core is one  *)
(* action.  The functions of tag.c are operators over a "world" record, so *)
(* that luaA_tag_clients is built from untag_client and tag_client exactly *)
(* as in the source.  Each call also leaves, in `log`, the ordered trace   *)
(* of what it did: its structural changes, its calls to the collaborators  *)
(* (ewmh, banning, screen) and the signals it emitted.                     *)
(***************************************************************************)
EXTENDS Integers, Sequences, FiniteSets, TLC

\* ------------------------------------------------------------------ bounds
NumTags == 2
NumClients == 2
NumScreens == 2
MaxR == 2
NumJointClients == 1
NumHandlerTags == 1
NumPassClients == 3
MaxDepth == 1

Tags == 1..NumTags
Clients == 1..NumClients
Screens == 1..NumScreens

\* c->screen: every client belongs to exactly one screen.
ClientScreen(c) == ((c - 1) % NumScreens) + 1

RECURSIVE SeqsUpTo(_, _)
SeqsUpTo(S, n) ==
    IF n = 0 THEN {<<>>}
    ELSE LET shorter == SeqsUpTo(S, n - 1)
         IN shorter \cup {Append(s, x) : s \in {q \in shorter : Len(q) = n - 1}, x \in S}

\* The tables a script can pass to tag:clients(tbl), in lua_next order.
ClientTables == SeqsUpTo(Clients, MaxR)

\* The clients that get tagged in the runs that also activate and select tags.
JointClients == 1..NumJointClients
HandlerTags == 1..NumHandlerTags
PassClients == 1..NumPassClients
JointTables == SeqsUpTo(JointClients, MaxR)

\* globalconf.focus.client == NULL: no client has the focus.
NoClient == 0

\* A table element that is no client object (a number, a string, a tag).
NotAClient == 0

\* A value on the Lua stack that is no tag object.
NotATag == 0

\* tag_t.name after p_clear: the NULL pointer.
NullName == "(null)"

\* The names scripts give to tags.
TagNames == {"a", "b"}

\* Lua values passed as the value of a property, as <<type, payload>>.
LuaBooleans == {<<"boolean", TRUE>>, <<"boolean", FALSE>>}
LuaStrings == {<<"string", n>> : n \in TagNames}
LuaNil == <<"nil", 0>>
LuaValues == LuaBooleans \cup LuaStrings \cup {LuaNil}

\* The tables with at least one element that is no client.
BadTables == SeqsUpTo(Clients \cup {NotAClient}, MaxR) \ ClientTables

\* lauxlib's "no reference"; a registered function is named by its number.
LUA_REFNIL == 0
NumFunctions == 2
Functions == 1..NumFunctions

\* SelectionAcquire objects a script can create, and the atoms of the
\* selections it can name.  An object's window has the object's number.
NumSelObjects == 3
NumAtoms == 2
MaxReleasesCounted == 2
NumSequences == 2
NumDrawins == 2
NumPids == 2
SelObjects == 1..NumSelObjects
Atoms == 1..NumAtoms
Sequences == 1..NumSequences
Drawins == 1..NumDrawins
Pids == 1..NumPids
XCB_NONE == 0
NoObject == 0

VARIABLES
    activated,  \* tag_t.activated, per tag
    selected,   \* tag_t.selected, per tag
    name,       \* tag_t.name, per tag
    clients,    \* tag_t.clients (client_array_t), per tag
    refs,       \* references the core holds on each tag (luna_object_ref/unref)
    tags,       \* globalconf.tags (tag_array_t)
    log,        \* trace of the last call: mutations, collaborator calls, signals
    ret,        \* value returned by the last call (the table of tag:clients)
    err,        \* TRUE iff the last call raised a Lua type error
    hung,       \* TRUE iff the last call never returns: the state is the one its
                \* loop comes back to
    consistent, \* TRUE iff the last call emitted every signal in a state where
                \* no list holds a client twice and the registry matches the flags
    iterations, \* how often the last call entered the body of the removal loop
                \* and of the addition loop of luaA_tag_clients
    call        \* the last call and its arguments

\* mousegrabber.c
VARIABLES
    mousegrabber,     \* globalconf.mousegrabber: LUA_REFNIL or the registered function
    pointer_grabbed,  \* TRUE iff the X server holds the pointer grab for the program
    grabber_refs,     \* live references luaL_ref made for globalconf.mousegrabber
    last_change       \* the last call that wrote globalconf.mousegrabber, as the
                      \* script saw it end: "none", "run", "run_failed" or "stop"

grabberVars == <<mousegrabber, pointer_grabbed, grabber_refs, last_change>>

\* objects/selection_acquire.c
VARIABLES
    sel_selection,            \* selection_acquire_t.selection, per object
    sel_window,               \* selection_acquire_t.window, per object
    sel_created,              \* number of SelectionAcquire objects allocated so far
    luna_selection_acquires,  \* the registry table: atom -> registered object
    sel_releases              \* "release" emissions on each object so far, counted
                              \* up to MaxReleasesCounted

selectionVars == <<sel_selection, sel_window, sel_created, luna_selection_acquires,
                   sel_releases>>

\* spawn.c
VARIABLES
    sn_waits,           \* sn_waits: the startup sequences waited for, in order
    sn_timeouts,        \* sequences whose g_timeout_add_seconds source is pending
    sn_refs,            \* references spawn.c holds on each sequence
    sn_monitor,         \* what the monitor has reported of each sequence:
                        \* "none", "active" (initiated) or "ended"
    sn_signalled,       \* ":spawn.timeout" emissions since the sequence was initiated
    running_children,   \* running_children: entries (pid, exit_callback) sorted by pid
    child_refs,         \* live references luaL_ref made for exit callbacks
    processes           \* what the program last did with each pid: "none", "plain"
                        \* (spawned without callback), "callback" (tracked),
                        \* "reported" (tracked, exit reported)

spawnVars == <<sn_waits, sn_timeouts, sn_refs, sn_monitor, sn_signalled,
               running_children, child_refs, processes>>

\* objects/drawin.c
VARIABLES
    drawin_visible,   \* drawin_t.visible, per drawin
    drawin_window,    \* drawin_t.window, per drawin: XCB_NONE once collected
    drawins,          \* globalconf.drawins (drawin_array_t): the visible drawins
    drawin_refs,      \* references the core holds on each drawin
    drawin_held       \* TRUE iff the script holds a reference on the drawin

drawinVars == <<drawin_visible, drawin_window, drawins, drawin_refs, drawin_held>>

\* What the calls on tags leave alone.
otherVars == <<grabberVars, selectionVars, spawnVars, drawinVars>>

tagVars == <<activated, selected, name, clients, refs, tags, hung, consistent, iterations>>

vars == <<activated, selected, name, clients, refs, tags, log, ret, err, hung, consistent, call,
          iterations,
          mousegrabber, pointer_grabbed, grabber_refs, last_change,
          sel_selection, sel_window, sel_created, luna_selection_acquires, sel_releases,
          sn_waits, sn_timeouts, sn_refs, sn_monitor, sn_signalled,
          running_children, child_refs, processes,
          drawin_visible, drawin_window, drawins, drawin_refs, drawin_held>>

\* ------------------------------------------------------------ log entries
Ev(op, sig, obj, arg) == [op |-> op, sig |-> sig, obj |-> obj, arg |-> arg]

\* F applied to the value of v, which is computed once however often F reads it.
With(v, F(_)) == CHOOSE r \in {F(x) : x \in {v}} : TRUE

\* The record g of any subsystem with e added to its trace.
Logged0(g, e) == [g EXCEPT !.log = Append(@, e)]

Logged(w, e) ==
    With(w, LAMBDA x : IF x.hung THEN x ELSE [x EXCEPT !.log = Append(@, e)])

\* What a script connected to a signal does when the signal is emitted: one
\* call back into the core.  on/sig name the emission it is connected to.
Handler(on, sig, op, t, c, R, v) ==
    [on |-> on, sig |-> sig, op |-> op, tag |-> t, client |-> c, R |-> R, val |-> v]

NoHandler == Handler("none", "", "none", 0, 0, <<>>, FALSE)

\* The program state as one record, with an empty trace: the state a call starts in.
World ==
    [activated |-> activated, selected |-> selected, name |-> name,
     clients |-> clients, refs |-> refs, tags |-> tags,
     log |-> <<>>, ret |-> <<>>, err |-> FALSE, consistent |-> TRUE,
     handler |-> NoHandler, depth |-> 0, hung |-> FALSE, visited |-> {},
     iterations |-> <<0, 0>>]

Call(op, t, c, R, v) ==
    [op |-> op, tag |-> t, client |-> c, R |-> R, val |-> v, handler |-> NoHandler]

\* A call made while a script is connected to a signal.
CallWith(h, op, t, c, R, v) == [Call(op, t, c, R, v) EXCEPT !.handler = h]

\* The state a call starts in when the script h is connected.
WorldWith(h) == [World EXCEPT !.handler = h]

\* ------------------------------------------------------- helper operators
SeqRemoveAt(s, i) == [k \in 1..(Len(s) - 1) |-> IF k < i THEN s[k] ELSE s[k + 1]]

SeqToSet(s) == {s[i] : i \in 1..Len(s)}

NoDup(s) == \A i, j \in 1..Len(s) : s[i] = s[j] => i = j

\* luna_object_ref(L, idx): the core takes one reference on the tag.
luna_object_ref(w, t) ==
    With(w, LAMBDA x : IF x.hung THEN x
                       ELSE Logged([x EXCEPT !.refs[t] = @ + 1], Ev("ref", "", t, 0)))

\* luna_object_unref(L, tag): the core releases one reference on the tag.
luna_object_unref(w, t) ==
    With(w, LAMBDA x : IF x.hung THEN x
                       ELSE Logged([x EXCEPT !.refs[t] = @ - 1], Ev("unref", "", t, 0)))

\* ------------------------------------------------------------------ tag.c
is_client_tagged(w, c, t) ==
    \E i \in 1..Len(w.clients[t]) : w.clients[t][i] = c

\* No list holds a client twice, and a tag is in globalconf.tags iff its
\* activated flag is set, at most once.
Consistent(w) ==
    /\ \A t \in Tags : NoDup(w.clients[t])
    /\ \A t \in Tags : w.activated[t] <=> t \in SeqToSet(w.tags)
    /\ NoDup(w.tags)

RECURSIVE Emit(_, _)
RECURSIVE tag_client(_, _, _)
RECURSIVE untag_client(_, _, _)
RECURSIVE luaA_tag_clients(_, _, _, _)
RECURSIVE tag_view(_, _, _)
RECURSIVE set_activated(_, _, _)

\* The script connected to the signal runs inside the emission: its call into
\* the core starts from the state the emitting function has reached, and what
\* it returns goes to the script.
RunHandler(w, h) ==
    With([Logged(w, Ev("handler", h.sig, 0, 0)) EXCEPT !.depth = @ + 1], LAMBDA w1 :
        [(CASE h.op = "tag_client" -> tag_client(w1, h.tag, h.client)
            [] h.op = "untag_client" -> untag_client(w1, h.client, h.tag)
            [] h.op = "set_clients" -> luaA_tag_clients(w1, h.tag, TRUE, h.R)
            [] h.op = "set_selected" -> tag_view(w1, h.tag, h.val)
            [] h.op = "set_activated" -> set_activated(w1, h.tag, h.val)
            [] OTHER -> w1)
         EXCEPT !.depth = w1.depth - 1, !.ret = w1.ret])

\* luna_object_emit_signal: the emission is recorded with the state it happens
\* in, then the connected script runs, synchronously.  Handlers nest up to
\* MaxDepth calls.
Emit(w, e) ==
    With(w, LAMBDA x :
        IF x.hung THEN x
        ELSE IF x.depth < MaxDepth /\ x.handler.on = e.op /\ x.handler.sig = e.sig
             THEN RunHandler([x EXCEPT !.log = Append(@, e),
                                       !.consistent = @ /\ Consistent(x)],
                             x.handler)
             ELSE [x EXCEPT !.log = Append(@, e),
                            !.consistent = @ /\ Consistent(x)])

\* tag_client_emit_signal with the two emissions in the other order.
tag_client_emit_signal_tag_first(w, t, c, signame) ==
    LET w1 == Emit(w, Ev("emit_tag", signame, t, c))
    IN Emit(w1, Ev("emit_client", signame, c, t))

\* Signal on the client (argument: the tag), then on the tag (argument: the client).
tag_client_emit_signal(w, t, c, signame) ==
    LET w1 == Emit(w, Ev("emit_client", signame, c, t))
    IN Emit(w1, Ev("emit_tag", signame, t, c))

\* Variants of tag_client with one step changed: without the "don't tag twice"
\* test, without the unref of the early return, inserting at the front.
tag_client_variant(w, t, c, testTagged, unrefOnReturn, atFront) ==
    LET w0 == luna_object_ref(w, t)
    IN IF testTagged /\ is_client_tagged(w0, c, t)
       THEN IF unrefOnReturn THEN luna_object_unref(w0, t) ELSE w0
       ELSE LET w1 == Logged([w0 EXCEPT !.clients[t] =
                                 IF atFront THEN <<c>> \o @ ELSE Append(@, c)],
                             Ev("append", "", t, c))
                w2 == Logged(w1, Ev("ewmh_client_update_desktop", "", c, 0))
                w3 == Logged(w2, Ev("banning_need_update", "", 0, 0))
                w4 == Logged(w3, Ev("screen_update_workarea", "", ClientScreen(c), 0))
            IN tag_client_emit_signal(w4, t, c, "tagged")

tag_client_twice(w, t, c) == tag_client_variant(w, t, c, FALSE, TRUE, FALSE)

tag_client_leak(w, t, c) == tag_client_variant(w, t, c, TRUE, FALSE, FALSE)

tag_client_front(w, t, c) == tag_client_variant(w, t, c, TRUE, TRUE, TRUE)

\* tag_client with the "tagged" signals emitted before client_array_append.
tag_client_emits_first(w, t, c) ==
    LET w0 == luna_object_ref(w, t)
    IN IF is_client_tagged(w0, c, t)
       THEN luna_object_unref(w0, t)
       ELSE LET w1 == tag_client_emit_signal(w0, t, c, "tagged")
                w2 == Logged([w1 EXCEPT !.clients[t] = Append(@, c)],
                             Ev("append", "", t, c))
                w3 == Logged(w2, Ev("ewmh_client_update_desktop", "", c, 0))
                w4 == Logged(w3, Ev("banning_need_update", "", 0, 0))
            IN Logged(w4, Ev("screen_update_workarea", "", ClientScreen(c), 0))

\* client_array_append, then the collaborators, then the two "tagged" signals.
\* The reference taken at entry is kept for the new edge.
tag_client(w, t, c) ==
    LET w0 == luna_object_ref(w, t)
    IN IF is_client_tagged(w0, c, t)
       THEN luna_object_unref(w0, t)
       ELSE LET w1 == Logged([w0 EXCEPT !.clients[t] = Append(@, c)],
                             Ev("append", "", t, c))
                w2 == Logged(w1, Ev("ewmh_client_update_desktop", "", c, 0))
                w3 == Logged(w2, Ev("banning_need_update", "", 0, 0))
                w4 == Logged(w3, Ev("screen_update_workarea", "", ClientScreen(c), 0))
            IN tag_client_emit_signal(w4, t, c, "tagged")

\* untag_client without the workarea update.
untag_client_no_workarea(w, c, t) ==
    LET hits == {i \in 1..Len(w.clients[t]) : w.clients[t][i] = c}
    IN IF hits = {}
       THEN w
       ELSE LET i == CHOOSE k \in hits : \A m \in hits : k <= m
                w1 == Logged([w EXCEPT !.clients[t] = SeqRemoveAt(@, i)],
                             Ev("take", "", t, c))
                w2 == Logged(w1, Ev("banning_need_update", "", 0, 0))
                w3 == Logged(w2, Ev("ewmh_client_update_desktop", "", c, 0))
                w5 == tag_client_emit_signal(w3, t, c, "untagged")
            IN luna_object_unref(w5, t)

\* untag_client with the unref after the loop: it runs for a non-member too.
untag_client_unref_after_loop(w, c, t) ==
    LET hits == {i \in 1..Len(w.clients[t]) : w.clients[t][i] = c}
    IN IF hits = {}
       THEN luna_object_unref(w, t)
       ELSE LET i == CHOOSE k \in hits : \A m \in hits : k <= m
                w1 == Logged([w EXCEPT !.clients[t] = SeqRemoveAt(@, i)],
                             Ev("take", "", t, c))
                w2 == Logged(w1, Ev("banning_need_update", "", 0, 0))
                w3 == Logged(w2, Ev("ewmh_client_update_desktop", "", c, 0))
                w4 == Logged(w3, Ev("screen_update_workarea", "", ClientScreen(c), 0))
                w5 == tag_client_emit_signal(w4, t, c, "untagged")
            IN luna_object_unref(w5, t)

\* untag_client without the unref of the edge's reference.
untag_client_keeps_ref(w, c, t) ==
    LET hits == {i \in 1..Len(w.clients[t]) : w.clients[t][i] = c}
    IN IF hits = {}
       THEN w
       ELSE LET i == CHOOSE k \in hits : \A m \in hits : k <= m
                w1 == Logged([w EXCEPT !.clients[t] = SeqRemoveAt(@, i)],
                             Ev("take", "", t, c))
                w2 == Logged(w1, Ev("banning_need_update", "", 0, 0))
                w3 == Logged(w2, Ev("ewmh_client_update_desktop", "", c, 0))
                w4 == Logged(w3, Ev("screen_update_workarea", "", ClientScreen(c), 0))
            IN tag_client_emit_signal(w4, t, c, "untagged")

\* untag_client releasing the edge's reference before the two signals.
untag_client_unref_before_signals(w, c, t) ==
    LET hits == {i \in 1..Len(w.clients[t]) : w.clients[t][i] = c}
    IN IF hits = {}
       THEN w
       ELSE LET i == CHOOSE k \in hits : \A m \in hits : k <= m
                w1 == Logged([w EXCEPT !.clients[t] = SeqRemoveAt(@, i)],
                             Ev("take", "", t, c))
                w2 == Logged(w1, Ev("banning_need_update", "", 0, 0))
                w3 == Logged(w2, Ev("ewmh_client_update_desktop", "", c, 0))
                w4 == Logged(w3, Ev("screen_update_workarea", "", ClientScreen(c), 0))
            IN tag_client_emit_signal(luna_object_unref(w4, t), t, c, "untagged")

\* untag_client taking the client out of the list of every tag.
untag_client_every_tag(w, c, t) ==
    LET hits == {i \in 1..Len(w.clients[t]) : w.clients[t][i] = c}
    IN IF hits = {}
       THEN w
       ELSE LET w1 == Logged([w EXCEPT !.clients =
                                 [u \in DOMAIN @ |-> SelectSeq(@[u], LAMBDA x : x # c)]],
                             Ev("take", "", t, c))
                w2 == Logged(w1, Ev("banning_need_update", "", 0, 0))
                w3 == Logged(w2, Ev("ewmh_client_update_desktop", "", c, 0))
                w4 == Logged(w3, Ev("screen_update_workarea", "", ClientScreen(c), 0))
                w5 == tag_client_emit_signal(w4, t, c, "untagged")
            IN luna_object_unref(w5, t)

\* The loop stops at the first index holding c; nothing happens when there is none.
untag_client(w, c, t) ==
    LET hits == {i \in 1..Len(w.clients[t]) : w.clients[t][i] = c}
    IN IF hits = {}
       THEN w
       ELSE LET i == CHOOSE k \in hits : \A m \in hits : k <= m
                w1 == Logged([w EXCEPT !.clients[t] = SeqRemoveAt(@, i)],
                             Ev("take", "", t, c))
                w2 == Logged(w1, Ev("banning_need_update", "", 0, 0))
                w3 == Logged(w2, Ev("ewmh_client_update_desktop", "", c, 0))
                w4 == Logged(w3, Ev("screen_update_workarea", "", ClientScreen(c), 0))
                w5 == tag_client_emit_signal(w4, t, c, "untagged")
            IN luna_object_unref(w5, t)

\* luaC_checkuclass(L, -1, "Client") on a table element.
IsClient(x) == x \in Clients \cup PassClients

\* The inner loop comparing the elements without type-checking them.
RECURSIVE ScanTable_unchecked(_, _, _)
ScanTable_unchecked(R, c, k) ==
    IF k > Len(R) THEN "absent"
    ELSE IF R[k] = c THEN "found"
    ELSE ScanTable_unchecked(R, c, k + 1)

\* The inner lua_next loop of the removal pass: the table is scanned from its
\* start until an element equal to c; every element scanned is type-checked.
RECURSIVE ScanTable(_, _, _)
ScanTable(R, c, k) ==
    IF k > Len(R) THEN "absent"
    ELSE IF ~IsClient(R[k]) THEN "error"
    ELSE IF R[k] = c THEN "found"
    ELSE ScanTable(R, c, k + 1)

\* The removal pass without the j-- after untag_client.
RECURSIVE RemovalPass_no_decrement(_, _, _, _)
RemovalPass_no_decrement(w, t, R, j) ==
    IF w.hung \/ j > Len(w.clients[t]) THEN w
    ELSE LET c == w.clients[t][j]
             scan == ScanTable(R, c, 1)
         IN IF scan = "error" THEN [w EXCEPT !.err = TRUE]
            ELSE IF scan = "found" THEN RemovalPass_no_decrement(w, t, R, j + 1)
            ELSE RemovalPass_no_decrement(untag_client(w, c, t), t, R, j + 1)

\* The removal pass walking the list from its last element to its first.
RECURSIVE RemovalPass_backwards(_, _, _, _)
RemovalPass_backwards(w, t, R, j) ==
    With(w, LAMBDA x :
        IF x.hung \/ j > Len(x.clients[t]) THEN x
        ELSE LET c == x.clients[t][Len(x.clients[t]) - j + 1]
                 scan == ScanTable(R, c, 1)
             IN IF scan = "error" THEN [x EXCEPT !.err = TRUE]
                ELSE IF scan = "found" THEN RemovalPass_backwards(x, t, R, j + 1)
                ELSE RemovalPass_backwards(untag_client(x, c, t), t, R, j))

\* The program state a loop iteration starts in, with the loop's position.
Iteration(w, t, R, j) ==
    <<w.depth, t, R, j, w.clients, w.activated, w.selected, w.tags, w.refs>>

\* for (j = 0; j < clients->len; j++): a member absent from the table is
\* untagged and the index stays on the element that moved into its place.
\* The loop ends when j reaches clients->len, read again at every iteration: an
\* iteration that starts in the state of an earlier one repeats it for ever.
\* The removal pass starting again at the first element after every untag_client.
RECURSIVE RemovalPass_restarts(_, _, _, _)
RemovalPass_restarts(w, t, R, j) ==
    With(w, LAMBDA x :
        IF x.hung \/ j > Len(x.clients[t]) THEN x
        ELSE LET c == x.clients[t][j]
                 scan == ScanTable(R, c, 1)
                 x1 == [x EXCEPT !.iterations[1] = @ + 1]
             IN IF scan = "error" THEN [x1 EXCEPT !.err = TRUE]
                ELSE IF scan = "found" THEN RemovalPass_restarts(x1, t, R, j + 1)
                ELSE RemovalPass_restarts(untag_client(x1, c, t), t, R, 1))

RECURSIVE RemovalPass(_, _, _, _)
RemovalPass(w, t, R, j) ==
    With(w, LAMBDA x :
        IF x.hung \/ j > Len(x.clients[t]) THEN x
        ELSE LET c == x.clients[t][j]
                 scan == ScanTable(R, c, 1)
                 x1 == [x EXCEPT !.iterations[1] = @ + 1]
             IN IF scan = "error" THEN [x1 EXCEPT !.err = TRUE]
                ELSE IF scan = "found" THEN RemovalPass(x1, t, R, j + 1)
                ELSE IF Iteration(x, t, R, j) \in x.visited THEN [x EXCEPT !.hung = TRUE]
                ELSE RemovalPass(
                        untag_client([x1 EXCEPT !.visited = @ \cup {Iteration(x, t, R, j)}],
                                     c, t),
                        t, R, j))

\* The addition pass with every element of the table type-checked before the
\* first tag_client.
RECURSIVE AdditionPass_checked(_, _, _, _)
AdditionPass_checked(w, t, R, k) ==
    IF w.hung \/ k > Len(R) THEN w
    ELSE AdditionPass_checked(tag_client(w, t, R[k]), t, R, k + 1)

AdditionPass_validate_first(w, t, R, k) ==
    IF \E i \in k..Len(R) : ~IsClient(R[i]) THEN [w EXCEPT !.err = TRUE]
    ELSE AdditionPass_checked(w, t, R, k)

\* The second lua_next loop: tag_client for every element of the table.
RECURSIVE AdditionPass(_, _, _, _)
AdditionPass(w, t, R, k) ==
    With(w, LAMBDA x :
        IF x.hung \/ k > Len(R) THEN x
        ELSE IF ~IsClient(R[k]) THEN [x EXCEPT !.err = TRUE, !.iterations[2] = @ + 1]
        ELSE AdditionPass(tag_client([x EXCEPT !.iterations[2] = @ + 1], t, R[k]),
                          t, R, k + 1))

\* tag:clients([tbl]) without the test of lua_gettop: a missing table is
\* reconciled as an empty one.
luaA_tag_clients_always_reconciles(w, t, hasArg, R) ==
    With(RemovalPass(w, t, R, 1), LAMBDA w1 :
        With(IF ~w1.err THEN AdditionPass(w1, t, R, 1) ELSE w1, LAMBDA w2 :
            IF w2.err \/ w2.hung THEN w2 ELSE [w2 EXCEPT !.ret = w2.clients[t]]))

\* tag:clients([tbl]).  hasArg is lua_gettop(L) == 2.
luaA_tag_clients(w, t, hasArg, R) ==
    With(IF hasArg THEN RemovalPass(w, t, R, 1) ELSE w, LAMBDA w1 :
        With(IF hasArg /\ ~w1.err THEN AdditionPass(w1, t, R, 1) ELSE w1, LAMBDA w2 :
            IF w2.err \/ w2.hung THEN w2 ELSE [w2 EXCEPT !.ret = w2.clients[t]]))

\* tag_view(L, udx, view): the setter of tag.selected.
RECURSIVE UpdateWorkareas(_, _)
UpdateWorkareas(w, s) ==
    IF s > NumScreens THEN w
    ELSE UpdateWorkareas(Logged(w, Ev("screen_update_workarea", "", s, 0)), s + 1)

\* tag_view without the test for an unchanged value.
tag_view_no_test(w, t, view) ==
    LET w1 == Logged([w EXCEPT !.selected[t] = view],
                     Ev("set_selected", "", t, 0))
        w2 == Logged(w1, Ev("banning_need_update", "", 0, 0))
        w3 == UpdateWorkareas(w2, 1)
    IN Emit(w3, Ev("emit_tag", "property.selected", t, 0))

\* tag_view recomputing the workarea of the first screen only.
tag_view_one_screen(w, t, view) ==
    IF w.selected[t] # view
    THEN LET w1 == Logged([w EXCEPT !.selected[t] = view],
                          Ev("set_selected", "", t, 0))
             w2 == Logged(w1, Ev("banning_need_update", "", 0, 0))
             w3 == Logged(w2, Ev("screen_update_workarea", "", 1, 0))
         IN Emit(w3, Ev("emit_tag", "property.selected", t, 0))
    ELSE w

tag_view(w, t, view) ==
    IF w.selected[t] # view
    THEN LET w1 == Logged([w EXCEPT !.selected[t] = view],
                          Ev("set_selected", "", t, 0))
             w2 == Logged(w1, Ev("banning_need_update", "", 0, 0))
             w3 == UpdateWorkareas(w2, 1)
         IN Emit(w3, Ev("emit_tag", "property.selected", t, 0))
    ELSE w

\* Variants of the activated setter with one step changed: without the test
\* for an unchanged value, without the forced deselection, with the registry's
\* reference released before the deselection, with property.activated emitted
\* for an unchanged value too, with the tag put at the front of the registry,
\* with the two desktop syncs after property.activated.
set_activated_variant(w, t, v, testSame, deselect, unrefFirst, emitWhenSame, atFront, syncLast) ==
    IF testSame /\ v = w.activated[t]
    THEN IF emitWhenSame THEN Emit(w, Ev("emit_tag", "property.activated", t, 0)) ELSE w
    ELSE LET w1 == Logged([w EXCEPT !.activated[t] = v],
                          Ev("set_activated", "", t, 0))
             w2 == IF v
                   THEN LET a == luna_object_ref(w1, t)
                        IN Logged([a EXCEPT !.tags = IF atFront THEN <<t>> \o @
                                                                ELSE Append(@, t)],
                                  Ev("tags_append", "", t, 0))
                   ELSE LET hits == {i \in 1..Len(w1.tags) : w1.tags[i] = t}
                            a == IF hits = {} THEN w1
                                 ELSE Logged(
                                        [w1 EXCEPT !.tags = SeqRemoveAt(@,
                                            CHOOSE k \in hits : \A m \in hits : k <= m)],
                                        Ev("tags_take", "", t, 0))
                            a1 == IF unrefFirst THEN luna_object_unref(a, t) ELSE a
                            b == IF deselect /\ a1.selected[t]
                                 THEN LET b1 == Logged([a1 EXCEPT !.selected[t] = FALSE],
                                                       Ev("set_selected", "", t, 0))
                                          b2 == Emit(b1, Ev("emit_tag", "property.selected", t, 0))
                                      IN Logged(b2, Ev("banning_need_update", "", 0, 0))
                                 ELSE a1
                        IN IF unrefFirst THEN b ELSE luna_object_unref(b, t)
             w3 == Logged(w2, Ev("ewmh_update_net_numbers_of_desktop", "", 0, 0))
             w4 == Logged(w3, Ev("ewmh_update_net_desktop_names", "", 0, 0))
             e == Emit(w2, Ev("emit_tag", "property.activated", t, 0))
             e1 == Logged(e, Ev("ewmh_update_net_numbers_of_desktop", "", 0, 0))
         IN IF syncLast THEN Logged(e1, Ev("ewmh_update_net_desktop_names", "", 0, 0))
            ELSE Emit(w4, Ev("emit_tag", "property.activated", t, 0))

set_activated_no_test(w, t, v) == set_activated_variant(w, t, v, FALSE, TRUE, FALSE, FALSE, FALSE, FALSE)

set_activated_keeps_selected(w, t, v) == set_activated_variant(w, t, v, TRUE, FALSE, FALSE, FALSE, FALSE, FALSE)

set_activated_unref_first(w, t, v) == set_activated_variant(w, t, v, TRUE, TRUE, TRUE, FALSE, FALSE, FALSE)

set_activated_always_emits(w, t, v) == set_activated_variant(w, t, v, TRUE, TRUE, FALSE, TRUE, FALSE, FALSE)

set_activated_at_front(w, t, v) == set_activated_variant(w, t, v, TRUE, TRUE, FALSE, FALSE, TRUE, FALSE)

set_activated_syncs_last(w, t, v) ==
    set_activated_variant(w, t, v, TRUE, TRUE, FALSE, FALSE, FALSE, TRUE)

\* The setter releasing, on deactivation, the references of the tag's edges
\* with the reference of the registry.
set_activated_releases_edges(w, t, v) ==
    LET r == set_activated_variant(w, t, v, TRUE, TRUE, FALSE, FALSE, FALSE, FALSE)
    IN IF ~v /\ w.activated[t] THEN [r EXCEPT !.refs[t] = @ - Len(r.clients[t])] ELSE r

\* lunaL_setter(tag, activated)
set_activated(w, t, v) ==
    IF v = w.activated[t] THEN w
    ELSE LET w1 == Logged([w EXCEPT !.activated[t] = v],
                          Ev("set_activated", "", t, 0))
             w2 == IF v
                   THEN LET a == luna_object_ref(w1, t)
                        IN Logged([a EXCEPT !.tags = Append(@, t)],
                                  Ev("tags_append", "", t, 0))
                   ELSE LET hits == {i \in 1..Len(w1.tags) : w1.tags[i] = t}
                            a == IF hits = {} THEN w1
                                 ELSE Logged(
                                        [w1 EXCEPT !.tags = SeqRemoveAt(@,
                                            CHOOSE k \in hits : \A m \in hits : k <= m)],
                                        Ev("tags_take", "", t, 0))
                            b == IF a.selected[t]
                                 THEN LET b1 == Logged([a EXCEPT !.selected[t] = FALSE],
                                                       Ev("set_selected", "", t, 0))
                                          b2 == Emit(b1, Ev("emit_tag", "property.selected", t, 0))
                                      IN Logged(b2, Ev("banning_need_update", "", 0, 0))
                                 ELSE a
                        IN luna_object_unref(b, t)
             w3 == Logged(w2, Ev("ewmh_update_net_numbers_of_desktop", "", 0, 0))
             w4 == Logged(w3, Ev("ewmh_update_net_desktop_names", "", 0, 0))
         IN Emit(w4, Ev("emit_tag", "property.activated", t, 0))

\* The first loop of tags_get_current_or_first_selected_index without the
\* test of (*tag)->selected.
RECURSIVE FirstTagWith(_, _, _, _, _)
FirstTagWith(w, focus, i, needSelected, needFocus) ==
    IF i > Len(w.tags) THEN 0
    ELSE IF /\ (needSelected => w.selected[w.tags[i]])
            /\ (needFocus => is_client_tagged(w, focus, w.tags[i]))
         THEN i
         ELSE FirstTagWith(w, focus, i + 1, needSelected, needFocus)

current_index_any_focused_tag(w, focus) ==
    LET a == IF focus # NoClient THEN FirstTagWith(w, focus, 1, FALSE, TRUE) ELSE 0
        b == FirstTagWith(w, focus, 1, TRUE, FALSE)
        idx == IF a # 0 THEN a - 1 ELSE IF b # 0 THEN b - 1 ELSE 0
    IN [w EXCEPT !.ret = <<idx>>]

\* tags_get_current_or_first_selected_index: foreach over globalconf.tags,
\* first for a selected tag holding the focused client, then for a selected
\* tag, else 0.  tag_array_indexof counts from 0.
tags_get_current_or_first_selected_index(w, focus) ==
    LET a == IF focus # NoClient THEN FirstTagWith(w, focus, 1, TRUE, TRUE) ELSE 0
        b == FirstTagWith(w, focus, 1, TRUE, FALSE)
        idx == IF a # 0 THEN a - 1 ELSE IF b # 0 THEN b - 1 ELSE 0
    IN [w EXCEPT !.ret = <<idx>>]

\* lunaL_setter(tag, name) with the old name freed before the value is checked.
lunaL_setter_name_frees_first(w, self, value) ==
    IF self \notin Tags THEN [w EXCEPT !.err = TRUE]
    ELSE IF value[1] # "string" THEN [w EXCEPT !.name[self] = NullName, !.err = TRUE]
    ELSE LET w1 == Logged([w EXCEPT !.name[self] = value[2]], Ev("set_name", "", self, 0))
             w2 == Emit(w1, Ev("emit_tag", "property.name", self, 0))
         IN Logged(w2, Ev("ewmh_update_net_desktop_names", "", 0, 0))

\* The setter of the name returning early when the tag has the name already.
lunaL_setter_name_tests_same(w, self, value) ==
    IF self \notin Tags THEN [w EXCEPT !.err = TRUE]
    ELSE IF value[1] # "string" THEN [w EXCEPT !.err = TRUE]
    ELSE IF w.name[self] = value[2] THEN w
    ELSE LET w1 == Logged([w EXCEPT !.name[self] = value[2]], Ev("set_name", "", self, 0))
             w2 == Emit(w1, Ev("emit_tag", "property.name", self, 0))
         IN Logged(w2, Ev("ewmh_update_net_desktop_names", "", 0, 0))

\* lunaL_setter(tag, name): luaC_checkuclass, luaL_checkstring, then the new
\* name, property.name and the desktop names.
lunaL_setter_name(w, self, value) ==
    IF self \notin Tags THEN [w EXCEPT !.err = TRUE]
    ELSE IF value[1] # "string" THEN [w EXCEPT !.err = TRUE]
    ELSE LET w1 == Logged([w EXCEPT !.name[self] = value[2]], Ev("set_name", "", self, 0))
             w2 == Emit(w1, Ev("emit_tag", "property.name", self, 0))
         IN Logged(w2, Ev("ewmh_update_net_desktop_names", "", 0, 0))

\* lunaL_setter(tag, selected): luaA_checkboolean on the value, then tag_view,
\* which checks the tag first.
lunaL_setter_selected(w, self, value) ==
    IF value[1] # "boolean" THEN [w EXCEPT !.err = TRUE]
    ELSE IF self \notin Tags THEN [w EXCEPT !.err = TRUE]
    ELSE tag_view(w, self, value[2])

\* lunaL_setter(tag, activated): luaC_checkuclass and luaA_checkboolean before
\* anything else.
lunaL_setter_activated(w, self, value) ==
    IF self \notin Tags THEN [w EXCEPT !.err = TRUE]
    ELSE IF value[1] # "boolean" THEN [w EXCEPT !.err = TRUE]
    ELSE set_activated(w, self, value[2])

\* tag_client(L, c) with any value on top of the stack: luaC_checkuclass(L, -1,
\* "Tag") comes before luna_object_ref.
tag_client_on_top(w, top, c) ==
    IF top \notin Tags THEN [w EXCEPT !.err = TRUE]
    ELSE tag_client(w, top, c)

\* lunaL_getter(tag, activated): pushes tag->selected.
lunaL_getter_activated(w, t) == [w EXCEPT !.ret = <<w.selected[t]>>]

\* ---------------------------------------------------------------- actions
Idle == Call("idle", 0, 0, <<>>, FALSE)

Return(w, c) ==
    /\ activated' = w.activated
    /\ selected' = w.selected
    /\ name' = w.name
    /\ clients' = w.clients
    /\ refs' = w.refs
    /\ tags' = w.tags
    /\ log' = w.log
    /\ ret' = w.ret
    /\ err' = w.err
    /\ hung' = w.hung
    /\ consistent' = w.consistent
    /\ iterations' = w.iterations
    /\ call' = c
    /\ UNCHANGED otherVars

\* lunaL_tag_alloc: p_clear leaves a new tag inactive, unselected, without clients.
Init ==
    /\ activated = [t \in Tags |-> FALSE]
    /\ selected = [t \in Tags |-> FALSE]
    /\ name = [t \in Tags |-> NullName]
    /\ clients = [t \in Tags |-> <<>>]
    /\ refs = [t \in Tags |-> 0]
    /\ tags = <<>>
    /\ log = <<>>
    /\ ret = <<>>
    /\ err = FALSE
    /\ hung = FALSE
    /\ consistent = TRUE
    /\ iterations = <<0, 0>>
    /\ call = Idle
    /\ mousegrabber = LUA_REFNIL
    /\ pointer_grabbed = FALSE
    /\ grabber_refs = 0
    /\ last_change = "none"
    /\ sel_selection = [o \in SelObjects |-> XCB_NONE]
    /\ sel_window = [o \in SelObjects |-> XCB_NONE]
    /\ sel_created = 0
    /\ luna_selection_acquires = [a \in Atoms |-> NoObject]
    /\ sel_releases = [o \in SelObjects |-> 0]
    /\ sn_waits = <<>>
    /\ sn_timeouts = {}
    /\ sn_refs = [s \in Sequences |-> 0]
    /\ sn_monitor = [s \in Sequences |-> "none"]
    /\ sn_signalled = [s \in Sequences |-> 0]
    /\ running_children = <<>>
    /\ child_refs = 0
    /\ processes = [p \in Pids |-> "none"]
    /\ drawin_visible = [d \in Drawins |-> FALSE]
    /\ drawin_window = [d \in Drawins |-> d]
    /\ drawins = <<>>
    /\ drawin_refs = [d \in Drawins |-> 0]
    /\ drawin_held = [d \in Drawins |-> TRUE]

\* The call has returned and the script goes on: the trace, the returned value
\* and the error of the finished call are consumed.  The program state stays.
\* A call that never returns leaves the program in its loop.
Resume ==
    /\ call # Idle
    /\ ~hung
    /\ log' = <<>>
    /\ ret' = <<>>
    /\ err' = FALSE
    /\ consistent' = TRUE
    /\ iterations' = <<0, 0>>
    /\ call' = Idle
    /\ UNCHANGED <<activated, selected, name, clients, refs, tags, hung>>
    /\ UNCHANGED otherVars

TagClient ==
    /\ call = Idle
    /\ \E t \in Tags, c \in Clients :
        Return(tag_client(World, t, c), Call("tag_client", t, c, <<>>, FALSE))

UntagClient ==
    /\ call = Idle
    /\ \E t \in Tags, c \in Clients :
        Return(untag_client(World, c, t), Call("untag_client", t, c, <<>>, FALSE))

SetClients ==
    /\ call = Idle
    /\ \E t \in Tags, R \in ClientTables :
        Return(luaA_tag_clients(World, t, TRUE, R), Call("set_clients", t, 0, R, FALSE))

SetSelected ==
    /\ call = Idle
    /\ \E t \in Tags, v \in BOOLEAN :
        Return(tag_view(World, t, v), Call("set_selected", t, 0, <<>>, v))

SetActivated ==
    /\ call = Idle
    /\ \E t \in Tags, v \in BOOLEAN :
        Return(set_activated(World, t, v), Call("set_activated", t, 0, <<>>, v))

\* Calls that change the membership of tags.
NextMember ==
    \/ TagClient
    \/ UntagClient
    \/ SetClients
    \/ Resume

SpecMember == Init /\ [][NextMember]_vars

\* Calls that change the activation and the selection of tags.
NextLife ==
    \/ SetActivated
    \/ SetSelected
    \/ Resume

SpecLife == Init /\ [][NextLife]_vars

\* tag:clients(tbl) with a table that holds something else than clients.
SetClientsBad ==
    /\ call = Idle
    /\ \E t \in Tags, R \in BadTables :
        Return(luaA_tag_clients(World, t, TRUE, R), Call("set_clients", t, 0, R, FALSE))

\* The membership calls, ill-formed tables included.
NextMemberErr ==
    \/ TagClient
    \/ UntagClient
    \/ SetClients
    \/ SetClientsBad
    \/ Resume

SpecMemberErr == Init /\ [][NextMemberErr]_vars

\* tag:clients() with no table.
GetClients ==
    /\ call = Idle
    /\ \E t \in Tags :
        Return(luaA_tag_clients(World, t, FALSE, <<>>), Call("get_clients", t, 0, <<>>, FALSE))

\* Single membership changes and reads of the list.
NextClients ==
    \/ TagClient
    \/ UntagClient
    \/ GetClients
    \/ Resume

SpecClients == Init /\ [][NextClients]_vars

\* The membership calls on the clients of JointClients.
JointTagClient ==
    /\ call = Idle
    /\ \E t \in Tags, c \in JointClients :
        Return(tag_client(World, t, c), Call("tag_client", t, c, <<>>, FALSE))

JointUntagClient ==
    /\ call = Idle
    /\ \E t \in Tags, c \in JointClients :
        Return(untag_client(World, c, t), Call("untag_client", t, c, <<>>, FALSE))

JointSetClients ==
    /\ call = Idle
    /\ \E t \in Tags, R \in JointTables :
        Return(luaA_tag_clients(World, t, TRUE, R), Call("set_clients", t, 0, R, FALSE))

\* The query, for every client that can have the focus and for no focus.
CurrentIndex ==
    /\ call = Idle
    /\ \E focus \in Clients \cup {NoClient} :
        Return(tags_get_current_or_first_selected_index(World, focus),
               Call("current_index", 0, focus, <<>>, FALSE))

\* Activation, selection and membership together.
NextJoint ==
    \/ SetActivated
    \/ SetSelected
    \/ JointTagClient
    \/ JointUntagClient
    \/ JointSetClients
    \/ CurrentIndex
    \/ Resume

SpecJoint == Init /\ [][NextJoint]_vars

\* ------------------------------------------- calls with a script connected
\* The tables a connected script passes to tag:clients: none or one client.
HandlerTables == SeqsUpTo(JointClients, 1)

\* The calls a connected script makes back into the core.
HandlerCalls ==
    {Handler("", "", "tag_client", t, c, <<>>, FALSE) : t \in HandlerTags, c \in JointClients}
    \cup {Handler("", "", "untag_client", t, c, <<>>, FALSE) : t \in HandlerTags, c \in JointClients}
    \cup {Handler("", "", "set_clients", t, 0, R, FALSE) : t \in HandlerTags, R \in HandlerTables}
    \cup {Handler("", "", "set_selected", t, 0, <<>>, v) : t \in HandlerTags, v \in BOOLEAN}
    \cup {Handler("", "", "set_activated", t, 0, <<>>, v) : t \in HandlerTags, v \in BOOLEAN}

\* The scripts that can be connected to one of the emissions ons x sigs, and
\* no script at all.
Handlers(ons, sigs) ==
    {[h EXCEPT !.on = o, !.sig = s] : h \in HandlerCalls, o \in ons, s \in sigs}
    \cup {NoHandler}

HandledTagClient ==
    /\ call = Idle
    /\ \E t \in HandlerTags, c \in JointClients,
          h \in Handlers({"emit_client", "emit_tag"}, {"tagged"}) :
        Return(tag_client(WorldWith(h), t, c),
               CallWith(h, "tag_client", t, c, <<>>, FALSE))

HandledUntagClient ==
    /\ call = Idle
    /\ \E t \in HandlerTags, c \in JointClients,
          h \in Handlers({"emit_client", "emit_tag"}, {"untagged"}) :
        Return(untag_client(WorldWith(h), c, t),
               CallWith(h, "untag_client", t, c, <<>>, FALSE))

HandledSetClients ==
    /\ call = Idle
    /\ \E t \in HandlerTags, R \in JointTables,
          h \in Handlers({"emit_client", "emit_tag"}, {"tagged", "untagged"}) :
        Return(luaA_tag_clients(WorldWith(h), t, TRUE, R),
               CallWith(h, "set_clients", t, 0, R, FALSE))

HandledSetSelected ==
    /\ call = Idle
    /\ \E t \in HandlerTags, v \in BOOLEAN,
          h \in Handlers({"emit_tag"}, {"property.selected"}) :
        Return(tag_view(WorldWith(h), t, v),
               CallWith(h, "set_selected", t, 0, <<>>, v))

HandledSetActivated ==
    /\ call = Idle
    /\ \E t \in HandlerTags, v \in BOOLEAN,
          h \in Handlers({"emit_tag"}, {"property.selected", "property.activated"}) :
        Return(set_activated(WorldWith(h), t, v),
               CallWith(h, "set_activated", t, 0, <<>>, v))

\* Every call with every script that one of its emissions can run.
NextHandled ==
    \/ HandledTagClient
    \/ HandledUntagClient
    \/ HandledSetClients
    \/ HandledSetSelected
    \/ HandledSetActivated
    \/ Resume

SpecHandled == Init /\ [][NextHandled]_vars

\* ----------------------------- tag:clients(tbl) while a script untags clients
\* Tables of distinct clients.
PassTables ==
    {R \in SeqsUpTo(PassClients, MaxR) : \A i, k \in 1..Len(R) : i < k => R[i] < R[k]}

\* The scripts connected to "untagged", on the client or on the tag, that
\* untag one client from one tag; and no script.
UntagHandlers ==
    {Handler(o, "untagged", "untag_client", t, c, <<>>, FALSE) :
        o \in {"emit_client", "emit_tag"}, t \in HandlerTags, c \in PassClients}
    \cup {NoHandler}

PassTagClient ==
    /\ call = Idle
    /\ \E t \in HandlerTags, c \in PassClients :
        Return(tag_client(World, t, c), Call("tag_client", t, c, <<>>, FALSE))

PassSetClients ==
    /\ call = Idle
    /\ \E t \in HandlerTags, R \in PassTables, h \in UntagHandlers :
        Return(luaA_tag_clients(WorldWith(h), t, TRUE, R),
               CallWith(h, "set_clients", t, 0, R, FALSE))

NextPass ==
    \/ PassTagClient
    \/ PassSetClients
    \/ Resume

SpecPass == Init /\ [][NextPass]_vars

SetName ==
    /\ call = Idle
    /\ \E t \in Tags, v \in LuaStrings :
        Return(lunaL_setter_name(World, t, v), Call("set_name", t, 0, <<v>>, FALSE))

GetActivated ==
    /\ call = Idle
    /\ \E t \in Tags :
        Return(lunaL_getter_activated(World, t), Call("get_activated", t, 0, <<>>, FALSE))

\* The calls with an argument of the wrong type: something that is no tag where
\* the tag is expected, or a value that is no boolean (no string for the name).
BadSetActivated ==
    /\ call = Idle
    /\ \E self \in Tags \cup {NotATag}, v \in LuaValues :
        /\ self = NotATag \/ v \notin LuaBooleans
        /\ Return(lunaL_setter_activated(World, self, v),
                  Call("bad_set_activated", self, 0, <<>>, FALSE))

BadSetSelected ==
    /\ call = Idle
    /\ \E self \in Tags \cup {NotATag}, v \in LuaValues :
        /\ self = NotATag \/ v \notin LuaBooleans
        /\ Return(lunaL_setter_selected(World, self, v),
                  Call("bad_set_selected", self, 0, <<>>, FALSE))

BadSetName ==
    /\ call = Idle
    /\ \E self \in Tags \cup {NotATag}, v \in LuaValues :
        /\ self = NotATag \/ v \notin LuaStrings
        /\ Return(lunaL_setter_name(World, self, v),
                  Call("bad_set_name", self, 0, <<>>, FALSE))

BadTagClient ==
    /\ call = Idle
    /\ \E c \in Clients :
        Return(tag_client_on_top(World, NotATag, c),
               Call("bad_tag_client", NotATag, c, <<>>, FALSE))

\* Reading and writing the properties of tags, ill-typed calls included.
NextProps ==
    \/ SetActivated
    \/ SetSelected
    \/ SetName
    \/ GetActivated
    \/ BadSetActivated
    \/ BadSetSelected
    \/ BadSetName
    \/ BadTagClient
    \/ Resume

SpecProps == Init /\ [][NextProps]_vars

\* ------------------------------------------------------- mousegrabber.c
\* The state of the grabber as one record, with an empty trace.
Grabber ==
    [mousegrabber |-> mousegrabber, pointer_grabbed |-> pointer_grabbed,
     grabber_refs |-> grabber_refs, log |-> <<>>, ret |-> <<>>, err |-> FALSE]

\* Arguments a script can pass as the callback and as the cursor.
CallbackArgs == {<<"function", f>> : f \in Functions} \cup {LuaNil}
CursorArgs == {LuaNil, <<"string", "watch">>, <<"string", "no_such_cursor">>, <<"table", 0>>}

\* xcursor_font_fromstr: 0 for a name that is no cursor.
xcursor_font_fromstr(n) == IF n = "watch" THEN 150 ELSE 0

\* luaL_error: the message is raised and the function does not return.
luaL_error(g, msg) == [Logged0(g, Ev("luaL_error", msg, 0, 0)) EXCEPT !.err = TRUE]

\* luaA_register(L, idx, &globalconf.mousegrabber)
luaA_register(g, f) ==
    LET g1 == IF g.mousegrabber # LUA_REFNIL
              THEN [g EXCEPT !.grabber_refs = @ - 1]
              ELSE g
    IN Logged0([g1 EXCEPT !.mousegrabber = f, !.grabber_refs = @ + 1],
               Ev("luaA_register", "", f, 0))

\* luaA_unregister(L, &globalconf.mousegrabber): luaL_unref ignores LUA_REFNIL.
luaA_unregister(g) ==
    Logged0([g EXCEPT !.mousegrabber = LUA_REFNIL,
                      !.grabber_refs = IF g.mousegrabber # LUA_REFNIL THEN @ - 1 ELSE @],
            Ev("luaA_unregister", "", 0, 0))

\* The steps of luaA_mousegrabber_run after the test of a running grabber.
\* grab is what mousegrabber_grab returns.
run_from_cursor(g, func, cursor, grab, keepOnFailure) ==
    IF cursor # LuaNil /\ cursor[1] # "string"
    THEN luaL_error(g, "string expected")
    ELSE IF cursor # LuaNil /\ xcursor_font_fromstr(cursor[2]) = 0
    THEN Logged0(g, Ev("luaA_warn", "invalid cursor", 0, 0))
    ELSE IF func[1] # "function"
    THEN luaL_error(g, "function expected")
    ELSE LET g1 == IF cursor # LuaNil
                   THEN Logged0(g, Ev("xcursor_new", "", xcursor_font_fromstr(cursor[2]), 0))
                   ELSE g
             g2 == luaA_register(g1, func[2])
             g3 == Logged0(g2, Ev("xcb_grab_pointer", "", 0, 0))
         IN IF grab
            THEN [g3 EXCEPT !.pointer_grabbed = TRUE]
            ELSE luaL_error(IF keepOnFailure THEN g3 ELSE luaA_unregister(g3),
                            "unable to grab mouse pointer")

\* luaA_mousegrabber_run without the test of a running grabber.
luaA_mousegrabber_run_no_test(g, func, cursor, grab) ==
    run_from_cursor(g, func, cursor, grab, FALSE)

\* luaA_mousegrabber_run keeping the callback when the pointer cannot be grabbed.
luaA_mousegrabber_run_keeps_callback(g, func, cursor, grab) ==
    IF g.mousegrabber # LUA_REFNIL
    THEN luaL_error(g, "mousegrabber already running")
    ELSE run_from_cursor(g, func, cursor, grab, TRUE)

\* mousegrabber.run(func, cursor)
luaA_mousegrabber_run(g, func, cursor, grab) ==
    IF g.mousegrabber # LUA_REFNIL
    THEN luaL_error(g, "mousegrabber already running")
    ELSE IF cursor # LuaNil /\ cursor[1] # "string"
    THEN luaL_error(g, "string expected")
    ELSE IF cursor # LuaNil /\ xcursor_font_fromstr(cursor[2]) = 0
    THEN Logged0(g, Ev("luaA_warn", "invalid cursor", 0, 0))
    ELSE IF func[1] # "function"
    THEN luaL_error(g, "function expected")
    ELSE LET g1 == IF cursor # LuaNil
                   THEN Logged0(g, Ev("xcursor_new", "", xcursor_font_fromstr(cursor[2]), 0))
                   ELSE g
             g2 == luaA_register(g1, func[2])
             g3 == Logged0(g2, Ev("xcb_grab_pointer", "", 0, 0))
         IN IF grab
            THEN [g3 EXCEPT !.pointer_grabbed = TRUE]
            ELSE luaL_error(luaA_unregister(g3), "unable to grab mouse pointer")

\* mousegrabber.stop()
luaA_mousegrabber_stop(g) ==
    luaA_unregister(Logged0([g EXCEPT !.pointer_grabbed = FALSE],
                            Ev("xcb_ungrab_pointer", "", 0, 0)))

\* mousegrabber.isrunning()
luaA_mousegrabber_isrunning(g) == [g EXCEPT !.ret = <<g.mousegrabber # LUA_REFNIL>>]

\* What the script has seen of the call that ended with the trace l, if the
\* call wrote globalconf.mousegrabber: a run that returned, a run that raised
\* after registering, a stop.
ChangeSeen(l, was) ==
    LET has(op) == \E i \in 1..Len(l) : l[i].op = op
    IN IF has("luaA_register")
       THEN IF has("luaL_error") THEN "run_failed" ELSE "run"
       ELSE IF has("luaA_unregister") THEN "stop"
       ELSE was

GrabberReturn(g, c) ==
    /\ mousegrabber' = g.mousegrabber
    /\ pointer_grabbed' = g.pointer_grabbed
    /\ grabber_refs' = g.grabber_refs
    /\ last_change' = ChangeSeen(g.log, last_change)
    /\ log' = g.log
    /\ ret' = g.ret
    /\ err' = g.err
    /\ call' = c
    /\ UNCHANGED <<tagVars, selectionVars, spawnVars, drawinVars>>

MousegrabberRun ==
    /\ call = Idle
    /\ \E func \in CallbackArgs, cursor \in CursorArgs, grab \in BOOLEAN :
        GrabberReturn(luaA_mousegrabber_run(Grabber, func, cursor, grab),
                      Call("mousegrabber_run", 0, 0, <<func, cursor>>, grab))

MousegrabberStop ==
    /\ call = Idle
    /\ GrabberReturn(luaA_mousegrabber_stop(Grabber),
                     Call("mousegrabber_stop", 0, 0, <<>>, FALSE))

MousegrabberIsRunning ==
    /\ call = Idle
    /\ GrabberReturn(luaA_mousegrabber_isrunning(Grabber),
                     Call("mousegrabber_isrunning", 0, 0, <<>>, FALSE))

NextGrabber ==
    \/ MousegrabberRun
    \/ MousegrabberStop
    \/ MousegrabberIsRunning
    \/ Resume

SpecGrabber == Init /\ [][NextGrabber]_vars

\* ------------------------------------------- objects/selection_acquire.c
\* The state of the selection objects as one record, with an empty trace.
Selections ==
    [selection |-> sel_selection, window |-> sel_window, created |-> sel_created,
     acquires |-> luna_selection_acquires, releases |-> sel_releases,
     log |-> <<>>, ret |-> <<>>, err |-> FALSE]

\* selection_release(L, ud): signal, window destroyed, table entry of the
\* object's atom cleared, atom cleared.  No table entry has the key XCB_NONE.
selection_release(x, o) ==
    LET x1 == Logged0([x EXCEPT !.releases[o] =
                                   IF @ < MaxReleasesCounted THEN @ + 1 ELSE @],
                      Ev("emit_selection", "release", o, 0))
        x2 == Logged0([x1 EXCEPT !.window[o] = XCB_NONE],
                      Ev("xcb_destroy_window", "", x1.window[o], 0))
        a == x2.selection[o]
        x3 == IF a \in Atoms
              THEN Logged0([x2 EXCEPT !.acquires[a] = NoObject], Ev("rawset", "", a, NoObject))
              ELSE Logged0(x2, Ev("rawset", "", a, NoObject))
    IN [x3 EXCEPT !.selection[o] = XCB_NONE]

\* The steps of the constructor up to the reply of the X server; owned is
\* whether the server names the new window as the owner.
acquire_window(x, o, atom) ==
    LET x1 == [x EXCEPT !.created = o, !.selection[o] = atom, !.window[o] = o]
        x2 == Logged0(x1, Ev("xcb_create_window", "", o, 0))
    IN Logged0(x2, Ev("xcb_set_selection_owner", "", o, atom))

\* The constructor overwriting the table entry without releasing the object
\* registered before.
luaA_selection_acquire_new_no_release(x, o, atom, owned) ==
    LET x3 == acquire_window(x, o, atom)
    IN IF ~owned
       THEN Logged0([x3 EXCEPT !.window[o] = XCB_NONE], Ev("xcb_destroy_window", "", o, 0))
       ELSE [Logged0([x3 EXCEPT !.acquires[atom] = o], Ev("rawset", "", atom, o))
                EXCEPT !.ret = <<o>>]

\* selection_acquire(args): o is the object allocated for the call.
luaA_selection_acquire_new(x, o, atom, owned) ==
    LET x1 == [x EXCEPT !.created = o, !.selection[o] = atom, !.window[o] = o]
        x2 == Logged0(x1, Ev("xcb_create_window", "", o, 0))
        x3 == Logged0(x2, Ev("xcb_set_selection_owner", "", o, atom))
    IN IF ~owned
       THEN Logged0([x3 EXCEPT !.window[o] = XCB_NONE], Ev("xcb_destroy_window", "", o, 0))
       ELSE LET old == x3.acquires[atom]
                x4 == IF old # NoObject THEN selection_release(x3, old) ELSE x3
            IN [Logged0([x4 EXCEPT !.acquires[atom] = o], Ev("rawset", "", atom, o))
                   EXCEPT !.ret = <<o>>]

\* selection_acquire:release()
luaA_selection_acquire_release(x, o) == selection_release(x, o)

\* selection_acquire_find_by_window, then selection_release of the object found.
selection_handle_selectionclear(x, window) ==
    LET found == {a \in Atoms : /\ x.acquires[a] # NoObject
                                /\ x.window[x.acquires[a]] = window}
    IN IF found = {} THEN x
       ELSE selection_release(x, x.acquires[CHOOSE a \in found : TRUE])

\* selection_handle_selectionrequest(ev): the request is rejected unless a
\* registered object holds the window, and then a transfer begins on it.
selection_handle_selectionrequest(x, window) ==
    LET found == {a \in Atoms : /\ x.acquires[a] # NoObject
                                /\ x.window[x.acquires[a]] = window}
    IN IF found = {}
       THEN Logged0(x, Ev("selection_transfer_reject", "", window, 0))
       ELSE Logged0(x, Ev("selection_transfer_begin", "",
                          x.acquires[CHOOSE a \in found : TRUE], 0))

SelectionReturn(x, c) ==
    /\ sel_selection' = x.selection
    /\ sel_window' = x.window
    /\ sel_created' = x.created
    /\ luna_selection_acquires' = x.acquires
    /\ sel_releases' = x.releases
    /\ log' = x.log
    /\ ret' = x.ret
    /\ err' = x.err
    /\ call' = c
    /\ UNCHANGED <<tagVars, grabberVars, spawnVars, drawinVars>>

\* The next object is allocated and tries to acquire the selection atom.
SelectionAcquireNew ==
    /\ call = Idle
    /\ sel_created < NumSelObjects
    /\ \E atom \in Atoms, owned \in BOOLEAN :
        SelectionReturn(luaA_selection_acquire_new(Selections, sel_created + 1, atom, owned),
                        Call("selection_acquire_new", atom, sel_created + 1, <<>>, owned))

\* release() on any object the script holds: registered, released or never registered.
SelectionAcquireRelease ==
    /\ call = Idle
    /\ \E o \in 1..sel_created :
        SelectionReturn(luaA_selection_acquire_release(Selections, o),
                        Call("selection_acquire_release", 0, o, <<>>, FALSE))

\* SelectionClear from the X server for a window the program created.
SelectionClear ==
    /\ call = Idle
    /\ \E o \in 1..sel_created :
        SelectionReturn(selection_handle_selectionclear(Selections, o),
                        Call("selectionclear", 0, o, <<>>, FALSE))

\* SelectionRequest from the X server for a window the program created.
SelectionRequest ==
    /\ call = Idle
    /\ \E o \in 1..sel_created :
        SelectionReturn(selection_handle_selectionrequest(Selections, o),
                        Call("selectionrequest", 0, o, <<>>, FALSE))

NextSelection ==
    \/ SelectionAcquireNew
    \/ SelectionAcquireRelease
    \/ SelectionClear
    \/ SelectionRequest
    \/ Resume

SpecSelection == Init /\ [][NextSelection]_vars

\* ---------------------------------------------------------------- spawn.c
\* 20 seconds timeout
AWESOME_SPAWN_TIMEOUT == 20

\* The state of the spawner as one record, with an empty trace.
Spawner ==
    [waits |-> sn_waits, timeouts |-> sn_timeouts, refs |-> sn_refs,
     monitor |-> sn_monitor, signalled |-> sn_signalled,
     children |-> running_children, child_refs |-> child_refs,
     processes |-> processes, log |-> <<>>, ret |-> <<>>, err |-> FALSE]

\* SnMonitorEventType
MonitorEvents ==
    {"SN_MONITOR_EVENT_INITIATED", "SN_MONITOR_EVENT_CHANGED",
     "SN_MONITOR_EVENT_COMPLETED", "SN_MONITOR_EVENT_CANCELED"}

\* SnStartupSequence_array_take(&sn_waits, i)
array_take(a, i) == SubSeq(a, 1, i - 1) \o SubSeq(a, i + 1, Len(a))

\* spawn_sequence_remove(s): the first entry equal to s is taken out and
\* unreferenced; ret is whether one was found.
spawn_sequence_remove(p, s) ==
    LET found == {i \in 1..Len(p.waits) : p.waits[i] = s}
    IN IF found = {}
       THEN [p EXCEPT !.ret = <<FALSE>>]
       ELSE LET i == CHOOSE i \in found : \A j \in found : i <= j
            IN [Logged0([p EXCEPT !.waits = array_take(@, i), !.refs[s] = @ - 1],
                        Ev("sn_startup_sequence_unref", "", s, 0))
                   EXCEPT !.ret = <<TRUE>>]

\* luna_emit_global_signal(L, name, 1) with the table {id = s}
emit_global(p, sig, s) == Logged0(p, Ev("emit_global", sig, s, 0))

\* spawn_monitor_timeout emitting whether or not the sequence was still waited for.
spawn_monitor_timeout_always_emits(p, s) ==
    LET p1 == spawn_sequence_remove(p, s)
        p2 == [emit_global(p1, ":spawn.timeout", s) EXCEPT !.signalled[s] = @ + 1]
    IN [Logged0([p2 EXCEPT !.refs[s] = @ - 1, !.timeouts = @ \ {s}],
                Ev("sn_startup_sequence_unref", "", s, 0))
           EXCEPT !.ret = <<FALSE>>]

\* spawn_monitor_timeout(sequence): the source returns FALSE and is removed.
spawn_monitor_timeout(p, s) ==
    LET p1 == spawn_sequence_remove(p, s)
        p2 == IF p1.ret = <<TRUE>>
              THEN [emit_global(p1, ":spawn.timeout", s) EXCEPT !.signalled[s] = @ + 1]
              ELSE p1
    IN [Logged0([p2 EXCEPT !.refs[s] = @ - 1, !.timeouts = @ \ {s}],
                Ev("sn_startup_sequence_unref", "", s, 0))
           EXCEPT !.ret = <<FALSE>>]

\* spawn_monitor_event adding no timeout for an initiated sequence.
spawn_monitor_event_no_timeout(p, s, event_type) ==
    LET p1 == IF event_type = "SN_MONITOR_EVENT_INITIATED"
              THEN [p EXCEPT !.refs[s] = @ + 1, !.waits = Append(@, s)]
              ELSE p
        event_type_str ==
            CASE event_type = "SN_MONITOR_EVENT_INITIATED" -> ":spawn.initiated"
              [] event_type = "SN_MONITOR_EVENT_CHANGED" -> ":spawn.change"
              [] event_type = "SN_MONITOR_EVENT_COMPLETED" -> ":spawn.completed"
              [] event_type = "SN_MONITOR_EVENT_CANCELED" -> ":spawn.canceled"
        p2 == IF event_type \in {"SN_MONITOR_EVENT_COMPLETED", "SN_MONITOR_EVENT_CANCELED"}
              THEN spawn_sequence_remove(p1, s)
              ELSE p1
    IN [emit_global(p2, event_type_str, s) EXCEPT !.ret = <<>>]

\* spawn_monitor_event(event, data) for the sequence s of the event.
spawn_monitor_event(p, s, event_type) ==
    LET p1 == IF event_type = "SN_MONITOR_EVENT_INITIATED"
              THEN Logged0([p EXCEPT !.refs[s] = @ + 2,
                                     !.waits = Append(@, s),
                                     !.timeouts = @ \cup {s}],
                           Ev("g_timeout_add_seconds", "", s, AWESOME_SPAWN_TIMEOUT))
              ELSE p
        event_type_str ==
            CASE event_type = "SN_MONITOR_EVENT_INITIATED" -> ":spawn.initiated"
              [] event_type = "SN_MONITOR_EVENT_CHANGED" -> ":spawn.change"
              [] event_type = "SN_MONITOR_EVENT_COMPLETED" -> ":spawn.completed"
              [] event_type = "SN_MONITOR_EVENT_CANCELED" -> ":spawn.canceled"
        p2 == IF event_type \in {"SN_MONITOR_EVENT_COMPLETED", "SN_MONITOR_EVENT_CANCELED"}
              THEN spawn_sequence_remove(p1, s)
              ELSE p1
    IN [emit_global(p2, event_type_str, s) EXCEPT !.ret = <<>>]

\* Wait statuses waitpid reports for a child that ended: exit(0), exit(1),
\* killed by signal 9, killed by signal 11 with a core dump.
Statuses == {0, 256, 9, 139}
WIFEXITED(status) == status % 128 = 0
WEXITSTATUS(status) == (status \div 256) % 256
WTERMSIG(status) == status % 128

\* Arguments a script can pass as the command and as the exit callback.
CmdArgs == {<<"string", "xterm">>, <<"string", "'">>, <<"table", 0>>}
ExitCallbackArgs == CallbackArgs \cup {<<"string", "x">>}

\* running_child_array_lookup: the index of the entry of pid, 0 if none.
running_child_array_lookup(a, pid) ==
    IF \E i \in 1..Len(a) : a[i].pid = pid
    THEN CHOOSE i \in 1..Len(a) : a[i].pid = pid
    ELSE 0

\* running_child_array_insert: the array stays sorted by compare_pids.
running_child_array_insert(a, child) ==
    LET before == Cardinality({i \in 1..Len(a) : a[i].pid < child.pid})
    IN SubSeq(a, 1, before) \o <<child>> \o SubSeq(a, before + 1, Len(a))

\* spawn_child_exited calling the callback before it takes the child out.
spawn_child_exited_callback_first(p, pid, status) ==
    LET i == running_child_array_lookup(p.children, pid)
    IN IF i = 0
       THEN Logged0(p, Ev("warn", "Unknown child", pid, status))
       ELSE LET exit_callback == p.children[i].exit_callback
                p1 == IF WIFEXITED(status)
                      THEN Logged0(p, Ev("luaA_dofunction", "exit", exit_callback,
                                         WEXITSTATUS(status)))
                      ELSE Logged0(p, Ev("luaA_dofunction", "signal", exit_callback,
                                         WTERMSIG(status)))
                p2 == Logged0([p1 EXCEPT !.children = array_take(@, i)],
                              Ev("running_child_array_remove", "", pid, 0))
            IN Logged0([p2 EXCEPT !.child_refs = @ - 1],
                       Ev("luaA_unregister", "", exit_callback, 0))

\* spawn_child_exited(pid, status)
spawn_child_exited(p, pid, status) ==
    LET i == running_child_array_lookup(p.children, pid)
    IN IF i = 0
       THEN Logged0(p, Ev("warn", "Unknown child", pid, status))
       ELSE LET exit_callback == p.children[i].exit_callback
                p1 == Logged0([p EXCEPT !.children = array_take(@, i)],
                              Ev("running_child_array_remove", "", pid, 0))
                p2 == IF WIFEXITED(status)
                      THEN Logged0(p1, Ev("luaA_dofunction", "exit", exit_callback,
                                          WEXITSTATUS(status)))
                      ELSE Logged0(p1, Ev("luaA_dofunction", "signal", exit_callback,
                                          WTERMSIG(status)))
            IN Logged0([p2 EXCEPT !.child_refs = @ - 1],
                       Ev("luaA_unregister", "", exit_callback, 0))

\* awesome.spawn(cmd, use_sn, stdin, stdout, stderr, exit_callback): spawned is
\* what g_spawn_async_with_pipes returns and pid the process it started.
luaA_spawn(p, cmd, use_sn, callback, spawned, pid) ==
    IF callback # LuaNil /\ callback[1] # "function"
    THEN luaL_error(p, "function expected")
    ELSE IF cmd = <<"string", "'">>
    THEN [p EXCEPT !.ret = <<"spawn: parse error">>]
    ELSE IF cmd[1] = "table"
    THEN [p EXCEPT !.ret = <<"spawn: There is nothing to execute">>]
    ELSE LET p1 == IF use_sn
                   THEN Logged0(p, Ev("sn_launcher_context_initiate", "", 0, 0))
                   ELSE p
             p2 == Logged0(p1, Ev("g_spawn_async_with_pipes", "", 0, 0))
         IN IF ~spawned
            THEN [(IF use_sn
                   THEN Logged0(p2, Ev("sn_launcher_context_complete", "", 0, 0))
                   ELSE p2) EXCEPT !.ret = <<"spawn failed">>]
            ELSE IF callback # LuaNil
            THEN [Logged0([p2 EXCEPT !.child_refs = @ + 1,
                                     !.children = running_child_array_insert(
                                         @, [pid |-> pid, exit_callback |-> callback[2]]),
                                     !.processes[pid] = "callback"],
                          Ev("luaA_register", "", callback[2], 0))
                     EXCEPT !.ret = <<pid>>]
            ELSE [p2 EXCEPT !.ret = <<pid>>, !.processes[pid] = "plain"]

SpawnReturn(p, c) ==
    /\ sn_waits' = p.waits
    /\ sn_timeouts' = p.timeouts
    /\ sn_refs' = p.refs
    /\ sn_monitor' = p.monitor
    /\ sn_signalled' = p.signalled
    /\ running_children' = p.children
    /\ child_refs' = p.child_refs
    /\ processes' = p.processes
    /\ log' = p.log
    /\ ret' = p.ret
    /\ err' = p.err
    /\ call' = c
    /\ UNCHANGED <<tagVars, grabberVars, selectionVars, drawinVars>>

\* The monitor reports an event of a sequence.  It creates a sequence when it
\* reports INITIATED, and a sequence object that nothing references any more
\* can be the next one created; CHANGED, COMPLETED and CANCELED come for a
\* sequence that was initiated and has not ended.
SpawnMonitorEvent ==
    /\ call = Idle
    /\ \E s \in Sequences, event_type \in MonitorEvents :
        /\ IF event_type = "SN_MONITOR_EVENT_INITIATED"
           THEN \/ sn_monitor[s] = "none"
                \/ sn_monitor[s] = "ended" /\ sn_refs[s] = 0 /\ s \notin sn_timeouts
           ELSE sn_monitor[s] = "active"
        /\ LET p == [Spawner EXCEPT
                        !.monitor[s] =
                            CASE event_type = "SN_MONITOR_EVENT_INITIATED" -> "active"
                              [] event_type = "SN_MONITOR_EVENT_CHANGED" -> @
                              [] OTHER -> "ended",
                        !.signalled[s] =
                            IF event_type = "SN_MONITOR_EVENT_INITIATED" THEN 0 ELSE @]
           IN SpawnReturn(spawn_monitor_event(p, s, event_type),
                          Call("spawn_monitor_event", s, 0, <<event_type>>, FALSE))

\* The main loop runs a timeout source that is due.
SpawnMonitorTimeout ==
    /\ call = Idle
    /\ \E s \in sn_timeouts :
        SpawnReturn(spawn_monitor_timeout(Spawner, s),
                    Call("spawn_monitor_timeout", s, 0, <<>>, FALSE))

\* The system gives a new process a pid that no child waited for has.
Spawn ==
    /\ call = Idle
    /\ \E cmd \in CmdArgs, use_sn \in BOOLEAN, callback \in ExitCallbackArgs,
          spawned \in BOOLEAN, pid \in Pids :
        /\ processes[pid] # "callback"
        /\ SpawnReturn(luaA_spawn(Spawner, cmd, use_sn, callback, spawned, pid),
                       Call("spawn", pid, 0, <<cmd, callback, use_sn>>, spawned))

\* The exit of a process is reported: a tracked child, or any other pid.
ChildExited ==
    /\ call = Idle
    /\ \E pid \in Pids, status \in Statuses :
        LET p == [Spawner EXCEPT !.processes[pid] = IF @ = "callback" THEN "reported" ELSE @]
        IN SpawnReturn(spawn_child_exited(p, pid, status),
                       Call("child_exited", pid, 0, <<status>>, FALSE))

NextStartup ==
    \/ SpawnMonitorEvent
    \/ SpawnMonitorTimeout
    \/ Resume

SpecStartup == Init /\ [][NextStartup]_vars

\* The main loop goes on after every handler, and a timeout source added with
\* g_timeout_add_seconds is dispatched once its 20 seconds have passed, however
\* many monitor events arrive meanwhile.
SpecStartupFair ==
    /\ SpecStartup
    /\ WF_vars(Resume)
    /\ \A s \in Sequences : SF_vars(SpawnMonitorTimeout /\ call'.tag = s)

NextChildren ==
    \/ Spawn
    \/ ChildExited
    \/ Resume

SpecChildren == Init /\ [][NextChildren]_vars

\* ------------------------------------------------------- objects/drawin.c
\* The state of the drawins as one record, with an empty trace.  Init is the
\* state after lunaL_drawin_alloc of every drawin: not visible, its window
\* created, held by the script that constructed it.
DrawinState ==
    [visible |-> drawin_visible, window |-> drawin_window, drawins |-> drawins,
     refs |-> drawin_refs, held |-> drawin_held,
     log |-> <<>>, ret |-> <<>>, err |-> FALSE]

\* drawin_map(L, widx): surfaceNull is drawin->drawable->surface == NULL.
drawin_map(g, d, surfaceNull) ==
    LET g1 == Logged0(g, Ev("drawin_apply_moveresize", "", d, 0))
        g2 == Logged0(g1, Ev("xcb_map_window", "", g1.window[d], 0))
        g3 == Logged0(g2, Ev("stack_windows", "", 0, 0))
        g4 == Logged0([g3 EXCEPT !.drawins = Append(@, d)],
                      Ev("drawin_array_append", "", d, 0))
    IN IF surfaceNull THEN Logged0(g4, Ev("drawin_update_drawing", "", d, 0)) ELSE g4

\* drawin_unmap(drawin): the first entry of the drawin is removed.
drawin_unmap(g, d) ==
    LET g1 == Logged0(g, Ev("xcb_unmap_window", "", g.window[d], 0))
        hits == {i \in 1..Len(g1.drawins) : g1.drawins[i] = d}
    IN IF hits = {} THEN g1
       ELSE Logged0([g1 EXCEPT !.drawins =
                        array_take(@, CHOOSE i \in hits : \A j \in hits : i <= j)],
                    Ev("drawin_array_remove", "", d, 0))

\* drawin_set_visible without the test for an unchanged value.
drawin_set_visible_no_test(g, d, v, strut, surfaceNull) ==
    LET g1 == [g EXCEPT !.visible[d] = v]
        g2 == IF v
              THEN Logged0([drawin_map(g1, d, surfaceNull) EXCEPT !.refs[d] = @ + 1],
                           Ev("luna_object_ref", "", d, 0))
              ELSE Logged0([drawin_unmap(g1, d) EXCEPT !.refs[d] = @ - 1],
                           Ev("luna_object_unref", "", d, 0))
        g3 == Logged0(g2, Ev("emit_drawin", "property.visible", d, 0))
    IN IF strut THEN Logged0(g3, Ev("screen_update_workarea", "", 0, d)) ELSE g3

\* drawin_set_visible(L, udx, v): strut is strut_has_value(&drawin->strut).
drawin_set_visible(g, d, v, strut, surfaceNull) ==
    IF v # g.visible[d]
    THEN LET g1 == [g EXCEPT !.visible[d] = v]
             g2 == IF v
                   THEN Logged0([drawin_map(g1, d, surfaceNull) EXCEPT !.refs[d] = @ + 1],
                                Ev("luna_object_ref", "", d, 0))
                   ELSE Logged0([drawin_unmap(g1, d) EXCEPT !.refs[d] = @ - 1],
                                Ev("luna_object_unref", "", d, 0))
             g3 == Logged0(g2, Ev("emit_drawin", "property.visible", d, 0))
         IN IF strut THEN Logged0(g3, Ev("screen_update_workarea", "", 0, d)) ELSE g3
    ELSE g

\* lunaL_setter(drawin, visible): luaA_checkboolean on the value comes first.
lunaL_setter_drawin_visible(g, d, value, strut, surfaceNull) ==
    IF value[1] # "boolean" THEN luaL_error(g, "boolean expected")
    ELSE drawin_set_visible(g, d, value[2], strut, surfaceNull)

\* lunaL_getter(drawin, visible)
lunaL_getter_drawin_visible(g, d) == [g EXCEPT !.ret = <<g.visible[d]>>]

\* drawin.get(): the visible drawins, which the script holds from then on.
luaA_drawin_get(g) ==
    [g EXCEPT !.ret = g.drawins,
              !.held = [d \in DOMAIN @ |-> @[d] \/ d \in SeqToSet(g.drawins)]]

\* lunaL_drawin_gc: the window is destroyed.
lunaL_drawin_gc(g, d) ==
    IF g.window[d] # XCB_NONE
    THEN LET g1 == Logged0(g, Ev("drawin_systray_kickout", "", d, 0))
         IN Logged0([g1 EXCEPT !.window[d] = XCB_NONE],
                    Ev("xcb_destroy_window", "", g.window[d], 0))
    ELSE g

DrawinReturn(g, c) ==
    /\ drawin_visible' = g.visible
    /\ drawin_window' = g.window
    /\ drawins' = g.drawins
    /\ drawin_refs' = g.refs
    /\ drawin_held' = g.held
    /\ log' = g.log
    /\ ret' = g.ret
    /\ err' = g.err
    /\ call' = c
    /\ UNCHANGED <<tagVars, grabberVars, selectionVars, spawnVars>>

\* drawin.visible = value, on a drawin the script holds.
DrawinSetVisible ==
    /\ call = Idle
    /\ \E d \in Drawins, value \in LuaValues, strut \in BOOLEAN, surfaceNull \in BOOLEAN :
        /\ drawin_held[d]
        /\ DrawinReturn(lunaL_setter_drawin_visible(DrawinState, d, value, strut, surfaceNull),
                        Call("drawin_set_visible", 0, d, <<value, surfaceNull>>, strut))

DrawinGetVisible ==
    /\ call = Idle
    /\ \E d \in Drawins :
        /\ drawin_held[d]
        /\ DrawinReturn(lunaL_getter_drawin_visible(DrawinState, d),
                        Call("drawin_get_visible", 0, d, <<>>, FALSE))

DrawinGet ==
    /\ call = Idle
    /\ DrawinReturn(luaA_drawin_get(DrawinState), Call("drawin_get", 0, 0, <<>>, FALSE))

\* The script lets go of its last reference on a drawin.
DrawinDrop ==
    /\ call = Idle
    /\ \E d \in Drawins :
        /\ drawin_held[d]
        /\ DrawinReturn([DrawinState EXCEPT !.held[d] = FALSE],
                        Call("drawin_drop", 0, d, <<>>, FALSE))

\* The collector finalizes a drawin that neither the script nor the core references.
DrawinCollect ==
    /\ call = Idle
    /\ \E d \in Drawins :
        /\ ~drawin_held[d]
        /\ drawin_refs[d] = 0
        /\ drawin_window[d] # XCB_NONE
        /\ DrawinReturn(lunaL_drawin_gc(DrawinState, d),
                        Call("drawin_gc", 0, d, <<>>, FALSE))

NextDrawin ==
    \/ DrawinSetVisible
    \/ DrawinGetVisible
    \/ DrawinGet
    \/ DrawinDrop
    \/ DrawinCollect
    \/ Resume

SpecDrawin == Init /\ [][NextDrawin]_vars

Next ==
    \/ TagClient
    \/ UntagClient
    \/ SetClients
    \/ SetSelected
    \/ SetActivated
    \/ Resume

Spec == Init /\ [][Next]_vars

TypeOK ==
    /\ activated \in [Tags -> BOOLEAN]
    /\ selected \in [Tags -> BOOLEAN]
    /\ \A t \in Tags : SeqToSet(clients[t]) \subseteq Clients \cup PassClients
    /\ refs \in [Tags -> Nat]
    /\ SeqToSet(tags) \subseteq Tags
    /\ consistent \in BOOLEAN
    /\ hung \in BOOLEAN

\* ------------------------------------------------------- reading a trace
IsEmit(e) == e.op \in {"emit_client", "emit_tag"}

IsCollaborator(e) ==
    e.op \in {"ewmh_client_update_desktop", "banning_need_update",
              "screen_update_workarea", "ewmh_update_net_numbers_of_desktop",
              "ewmh_update_net_desktop_names"}

Emits(l) == SelectSeq(l, IsEmit)

Collaborators(l) == SelectSeq(l, IsCollaborator)

CountOf(l, op, obj) == Cardinality({i \in 1..Len(l) : l[i].op = op /\ l[i].obj = obj})

CountSignal(l, sig) == Cardinality({i \in 1..Len(l) : IsEmit(l[i]) /\ l[i].sig = sig})

\* Positions in l of the entries equal to e.
Positions(l, e) == {i \in 1..Len(l) : l[i] = e}

\* s without the elements outside S (keep = TRUE) or inside S (keep = FALSE).
RECURSIVE Filter(_, _, _)
Filter(s, S, keep) ==
    IF s = <<>> THEN <<>>
    ELSE LET rest == Filter(Tail(s), S, keep)
         IN IF (Head(s) \in S) = keep THEN <<Head(s)>> \o rest ELSE rest

\* The elements of s outside seen, each at its first occurrence.
RECURSIVE FirstOccurrences(_, _)
FirstOccurrences(s, seen) ==
    IF s = <<>> THEN <<>>
    ELSE IF Head(s) \in seen THEN FirstOccurrences(Tail(s), seen)
    ELSE <<Head(s)>> \o FirstOccurrences(Tail(s), seen \cup {Head(s)})

\* ------------------------------------------------------------------ claims

\* C1: after any sequence of tag_client, untag_client and set_clients calls
\* (tables with duplicates included), no tag's clients list holds a client twice.
C1_NoDuplicateMember == \A t \in Tags : NoDup(clients[t])

\* A table naming a client twice was applied and the tag has members.
C1_Witness ==
    /\ call.op = "set_clients"
    /\ ~NoDup(call.R)
    /\ Len(clients[call.tag]) >= 1

\* C2: a tag is in globalconf.tags iff its activated flag is set, and at most once.
C2_RegistryIffActivated ==
    /\ \A t \in Tags : activated[t] <=> t \in SeqToSet(tags)
    /\ NoDup(tags)

\* A tag was deactivated while another tag stays in the registry.
C2_Witness ==
    /\ call.op = "set_activated"
    /\ ~call.val
    /\ log # <<>>
    /\ ~activated[call.tag]
    /\ Len(tags) >= 1

\* C3 as stated: every tag with activated = FALSE has selected = FALSE, whatever
\* tag set_selected is called on.
C3_InactiveImpliesUnselected == \A t \in Tags : ~activated[t] => ~selected[t]

\* C3 amended: a call leaves a tag inactive and selected only if the tag was
\* inactive before the call and either was selected already or the call is
\* set_selected(tag, true); activate and deactivate never do (deactivation
\* forces deselection).
C3_OnlySetSelectedSelectsInactive ==
    [][\A t \in Tags :
          (~activated'[t] /\ selected'[t])
              => /\ ~activated[t]
                 /\ \/ selected[t]
                    \/ (call'.op = "set_selected" /\ call'.tag = t /\ call'.val)]_vars

\* A selected tag was deactivated and is now unselected.
C3_Witness ==
    /\ call.op = "set_activated"
    /\ ~call.val
    /\ CountSignal(log, "property.selected") = 1
    /\ ~activated[call.tag]
    /\ ~selected[call.tag]

\* C4: after set_clients(t, R) with R made of clients only, the set of members
\* of t is the set of elements of R.
C4_ReconciliationSet ==
    (call.op = "set_clients" /\ ~err)
        => SeqToSet(clients[call.tag]) = SeqToSet(call.R)

\* One call both removed a member and added another.
C4_Witness ==
    /\ call.op = "set_clients"
    /\ \E i \in 1..Len(log) : log[i].op = "take"
    /\ \E i \in 1..Len(log) : log[i].op = "append"

\* C5: set_clients keeps the retained members in their prior order, puts the
\* new members after them in the order of their first occurrence in R, and
\* returns the list as stored.
C5_ReconciliationOrder ==
    [][(call'.op = "set_clients" /\ ~err')
          => LET t == call'.tag
                 C == clients[t]
                 R == call'.R
             IN /\ clients'[t] = Filter(C, SeqToSet(R), TRUE)
                                 \o FirstOccurrences(R, SeqToSet(C))
                /\ ret' = clients'[t]]_vars

\* A call kept a member and added another behind it.
C5_Witness ==
    /\ call.op = "set_clients"
    /\ Len(clients[call.tag]) = 2
    /\ CountOf(log, "append", call.tag) = 1
    /\ CountOf(log, "take", call.tag) = 0
    /\ ret = clients[call.tag]

\* C6: a tag_client call that adds an edge emits "tagged" on the client with
\* the tag as argument and then on the tag with the client as argument, an
\* untag_client call that removes an edge does the same with "untagged", and
\* a call that changes nothing emits no signal.
C6_DualEmission ==
    [][(call'.op \in {"tag_client", "untag_client"})
          => LET t == call'.tag
                 c == call'.client
                 member == c \in SeqToSet(clients[t])
                 sig == IF call'.op = "tag_client" THEN "tagged" ELSE "untagged"
                 changes == IF call'.op = "tag_client" THEN ~member ELSE member
             IN Emits(log') = IF changes
                              THEN <<Ev("emit_client", sig, c, t), Ev("emit_tag", sig, t, c)>>
                              ELSE <<>>]_vars

\* An untag_client call removed an edge and emitted its two signals.
C6_Witness ==
    /\ call.op = "untag_client"
    /\ Len(Emits(log)) = 2
    /\ call.client \notin SeqToSet(clients[call.tag])

\* C7: a call triggers one banning invalidation, one desktop sync of the client
\* and one workarea update of the client's screen for every edge it adds or
\* removes, and nothing else.
C7_CollaboratorsPerEdge ==
    [][(call'.op \in {"tag_client", "untag_client", "set_clients"})
          => LET t == call'.tag
                 before == SeqToSet(clients[t])
                 after == SeqToSet(clients'[t])
                 changed == (before \ after) \cup (after \ before)
             IN /\ CountOf(log', "banning_need_update", 0) = Cardinality(changed)
                /\ \A c \in Clients :
                      CountOf(log', "ewmh_client_update_desktop", c)
                          = IF c \in changed THEN 1 ELSE 0
                /\ \A sc \in Screens :
                      CountOf(log', "screen_update_workarea", sc)
                          = Cardinality({c \in changed : ClientScreen(c) = sc})
                /\ Len(Collaborators(log')) = 3 * Cardinality(changed)]_vars

\* One set_clients call changed two edges.
C7_Witness ==
    /\ call.op = "set_clients"
    /\ CountOf(log, "banning_need_update", 0) = 2
    /\ \E i \in 1..Len(log) : log[i].op = "take"

\* C8: deactivating an activated tag that is selected clears selected and emits
\* property.selected before the registry's reference is released and before
\* property.activated; deactivating an unselected tag emits no property.selected.
C8_DeselectBeforeRelease ==
    [][(call'.op = "set_activated" /\ ~call'.val /\ activated[call'.tag])
          => LET t == call'.tag
                 sel == Positions(log', Ev("emit_tag", "property.selected", t, 0))
                 act == Positions(log', Ev("emit_tag", "property.activated", t, 0))
                 rel == Positions(log', Ev("unref", "", t, 0))
             IN /\ ~selected'[t]
                /\ Cardinality(act) = 1
                /\ Cardinality(rel) = 1
                /\ IF selected[t]
                   THEN /\ Cardinality(sel) = 1
                        /\ \A i \in sel : \A k \in act \cup rel : i < k
                   ELSE sel = {}]_vars

\* A selected tag was deactivated.
C8_Witness ==
    /\ call.op = "set_activated"
    /\ ~call.val
    /\ Positions(log, Ev("emit_tag", "property.selected", call.tag, 0)) # {}
    /\ Positions(log, Ev("unref", "", call.tag, 0)) # {}

\* C9: activate on an activated tag and deactivate on an inactive tag change
\* nothing: registry, flags and reference counts stay, and the call emits no
\* signal and calls no collaborator.
C9_RedundantActivationNoOp ==
    [][(call'.op = "set_activated" /\ call'.val = activated[call'.tag])
          => /\ tags' = tags
             /\ activated' = activated
             /\ selected' = selected
             /\ refs' = refs
             /\ log' = <<>>]_vars

\* activate was called on a tag that is in the registry and did nothing.
C9_Witness ==
    /\ call.op = "set_activated"
    /\ call.val
    /\ log = <<>>
    /\ call.tag \in SeqToSet(tags)
    /\ refs[call.tag] = 1

\* C10: tag_client on a client that is a member already changes nothing: the
\* list and the reference counts stay (the reference taken at entry is
\* released), no signal is emitted and no collaborator is called.
C10_RetagNoOp ==
    [][(call'.op = "tag_client" /\ call'.client \in SeqToSet(clients[call'.tag]))
          => /\ clients' = clients
             /\ refs' = refs
             /\ Emits(log') = <<>>
             /\ Collaborators(log') = <<>>
             /\ log' = <<Ev("ref", "", call'.tag, 0), Ev("unref", "", call'.tag, 0)>>]_vars

\* tag_client was called for a member: the trace is a ref and its unref.
C10_Witness ==
    /\ call.op = "tag_client"
    /\ log = <<Ev("ref", "", call.tag, 0), Ev("unref", "", call.tag, 0)>>
    /\ call.client \in SeqToSet(clients[call.tag])

\* C11: untag_client for a client that is not a member of the tag raises no
\* error and does nothing: the lists and the reference counts stay and the trace
\* of the call is empty (no unref, no signal, no collaborator call).
C11_UntagAbsentNoOp ==
    [][(call'.op = "untag_client" /\ call'.client \notin SeqToSet(clients[call'.tag]))
          => /\ ~err'
             /\ clients' = clients
             /\ refs' = refs
             /\ log' = <<>>]_vars

\* untag_client was called for a non-member of a tag that has another member.
C11_Witness ==
    /\ call.op = "untag_client"
    /\ log = <<>>
    /\ clients[call.tag] # <<>>
    /\ call.client \notin SeqToSet(clients[call.tag])

\* C12: set_selected with the value the tag has already changes no state, emits
\* no signal and calls no collaborator; with the other value it sets the flag
\* and emits property.selected exactly once.
C12_SetSelectedOncePerChange ==
    [][(call'.op = "set_selected")
          => LET t == call'.tag
             IN IF call'.val = selected[t]
                THEN /\ selected' = selected
                     /\ activated' = activated
                     /\ tags' = tags
                     /\ refs' = refs
                     /\ log' = <<>>
                ELSE /\ selected' = [selected EXCEPT ![t] = call'.val]
                     /\ Emits(log') = <<Ev("emit_tag", "property.selected", t, 0)>>]_vars

\* set_selected(tag, true) was called on a tag that is selected already.
C12_Witness ==
    /\ call.op = "set_selected"
    /\ call.val
    /\ selected[call.tag]
    /\ log = <<>>

\* C13: the query returns the 0-based index of the first tag of globalconf.tags
\* that is selected and holds the focused client, if a client has the focus and
\* there is such a tag; else of the first selected tag; else 0.  When a tag of
\* the registry is selected the index designates a selected tag.
C13_CurrentOrFirstSelected ==
    (call.op = "current_index")
        => LET focus == call.client
               n == Len(tags)
               Sel(i) == selected[tags[i]]
               Foc(i) == focus # NoClient /\ focus \in SeqToSet(clients[tags[i]])
               r == ret[1]
           IN /\ Len(ret) = 1
              /\ IF \E i \in 1..n : Sel(i) /\ Foc(i)
                 THEN /\ r + 1 \in 1..n
                      /\ Sel(r + 1) /\ Foc(r + 1)
                      /\ \A k \in 1..r : ~(Sel(k) /\ Foc(k))
                 ELSE IF \E i \in 1..n : Sel(i)
                 THEN /\ r + 1 \in 1..n
                      /\ Sel(r + 1)
                      /\ \A k \in 1..r : ~Sel(k)
                 ELSE r = 0
              /\ (\E i \in 1..n : Sel(i)) => (r + 1 \in 1..n /\ Sel(r + 1))

\* The focused client decided: the first tag of the registry is selected but
\* does not hold it, and the query returned a later tag.
C13_Witness ==
    /\ call.op = "current_index"
    /\ call.client # NoClient
    /\ Len(tags) >= 2
    /\ selected[tags[1]]
    /\ ret[1] >= 1

\* The elements of R before its first element that is no client.
RECURSIVE ValidPrefix(_)
ValidPrefix(R) ==
    IF R = <<>> \/ ~IsClient(Head(R)) THEN <<>>
    ELSE <<Head(R)>> \o ValidPrefix(Tail(R))

\* The two "tagged" signals of each client of s, in the order of s.
RECURSIVE TaggedSignals(_, _)
TaggedSignals(s, t) ==
    IF s = <<>> THEN <<>>
    ELSE <<Ev("emit_client", "tagged", Head(s), t), Ev("emit_tag", "tagged", t, Head(s))>>
         \o TaggedSignals(Tail(s), t)

\* C14: set_clients(t, R) with an element of R that is no client ends with a
\* type error and returns nothing, and what the call did before the error
\* stays: the clients of R tagged before the offending element are members,
\* their signals were emitted and their references are held.
C14_NoRollback ==
    [][(call'.op = "set_clients" /\ \E i \in 1..Len(call'.R) : ~IsClient(call'.R[i]))
          => LET t == call'.tag
                 C == clients[t]
                 P == ValidPrefix(call'.R)
                 stopsInRemoval == \E c \in SeqToSet(C) : c \notin SeqToSet(P)
                 added == IF stopsInRemoval THEN <<>> ELSE FirstOccurrences(P, SeqToSet(C))
             IN /\ err'
                /\ ret' = <<>>
                /\ clients' = [clients EXCEPT ![t] = C \o added]
                /\ refs' = [refs EXCEPT ![t] = @ + Len(added)]
                /\ Emits(log') = TaggedSignals(added, t)]_vars

\* A call added a member and then met the element that is no client.
C14_Witness ==
    /\ call.op = "set_clients"
    /\ err
    /\ CountOf(log, "append", call.tag) >= 1
    /\ clients[call.tag] # <<>>

BadCalls == {"bad_set_activated", "bad_set_selected", "bad_set_name", "bad_tag_client"}

C16_ReferenceCount ==
    \A t \in Tags :
        refs[t] = (IF t \in SeqToSet(tags) THEN 1 ELSE 0) + Len(clients[t])

\* An edge was removed from a tag that is in the registry: the registry's
\* reference is the one left.
C16_Witness ==
    /\ call.op = "untag_client"
    /\ CountOf(log, "unref", call.tag) = 1
    /\ call.tag \in SeqToSet(tags)
    /\ refs[call.tag] = 1

\* C19: reading the activated property returns TRUE iff the tag is activated.
C19_GetterReturnsActivated ==
    (call.op = "get_activated") => ret = <<activated[call.tag]>>

CauseBefore(l, i) ==
    LET e == l[i]
        t == IF e.op = "emit_tag" THEN e.obj ELSE e.arg
        c == IF e.op = "emit_tag" THEN e.arg ELSE e.obj
        before(x) == \E j \in 1..(i - 1) : l[j] = x
    IN CASE e.sig = "tagged" -> before(Ev("append", "", t, c))
         [] e.sig = "untagged" -> before(Ev("take", "", t, c))
         [] e.sig = "property.selected" -> before(Ev("set_selected", "", t, 0))
         [] e.sig = "property.activated" ->
                /\ before(Ev("set_activated", "", t, 0))
                /\ before(Ev("tags_append", "", t, 0)) \/ before(Ev("tags_take", "", t, 0))
         [] OTHER -> TRUE

\* C17: with a script connected that calls back into the core, every emission
\* of activate, deactivate, set_selected, tag_client, untag_client and
\* set_clients, nested ones included, comes after the change that causes it and
\* happens in a state where no list holds a client twice and a tag is in the
\* registry, once, iff it is activated; the same holds in the state the outer
\* call leaves.
C17_ConsistentAtEveryEmission ==
    /\ consistent
    /\ Consistent(World)
    /\ \A i \in 1..Len(log) : IsEmit(log[i]) => CauseBefore(log, i)

\* A script connected to property.selected has re-activated the tag while it
\* was being deactivated, and the call has returned.
C17_Witness ==
    /\ call.op = "set_activated"
    /\ ~call.val
    /\ ~hung
    /\ call.handler.op = "set_activated"
    /\ \E i \in 1..Len(log) :
        /\ log[i].op = "handler"
        /\ \E j \in (i + 1)..Len(log) : log[j] = Ev("tags_append", "", call.tag, 0)
    /\ activated[call.tag]

\* C18: when tag:clients(R) returns, with or without a script connected to
\* "untagged" that untags clients, no client that was a member at entry and is
\* absent from R is a member: the removal pass has skipped none.
C18_RemovalPassSkipsNone ==
    [][(call'.op = "set_clients" /\ ~hung' /\ ~err')
          => \A c \in SeqToSet(clients[call'.tag]) \ SeqToSet(call'.R) :
                c \notin SeqToSet(clients'[call'.tag])]_vars

\* Whether c is in the clients list of t when the entry at position i of the
\* trace l happens, for a call that started with the list before: every
\* client_array_append and client_array_take of the call is in the trace.
MemberAt(l, i, t, c, before) ==
    LET appends == {j \in 1..(i - 1) : l[j] = Ev("append", "", t, c)}
        takes == {j \in 1..(i - 1) : l[j] = Ev("take", "", t, c)}
        held == IF c \in SeqToSet(before) THEN 1 ELSE 0
    IN held + Cardinality(appends) - Cardinality(takes) > 0

\* C21: at both emissions of "tagged" the client is in the tag's list and at
\* both emissions of "untagged" it is not, whatever the script connected to
\* the client-side emission has done before the tag-side emission.
C21_ListUpdatedAtBothEmissions ==
    [][\A i \in 1..Len(log') :
          LET e == log'[i]
              t == IF e.op = "emit_tag" THEN e.obj ELSE e.arg
              c == IF e.op = "emit_tag" THEN e.arg ELSE e.obj
          IN /\ (IsEmit(e) /\ e.sig = "tagged") => MemberAt(log', i, t, c, clients[t])
             /\ (IsEmit(e) /\ e.sig = "untagged") => ~MemberAt(log', i, t, c, clients[t])]_vars

\* C22: tag:clients() with no argument returns the list as it is stored and
\* changes nothing: the trace of the call is empty (no append, no take, no
\* signal, no reference taken or released, no collaborator), and flags, names,
\* lists, registry and reference counts stay.
C22_ReadOnlyClients ==
    [][(call'.op = "get_clients")
          => /\ ret' = clients[call'.tag]
             /\ log' = <<>>
             /\ ~err'
             /\ UNCHANGED <<activated, selected, name, clients, refs, tags>>]_vars

\* The list of a tag whose clients were tagged out of numeric order has been read.
C22_Witness ==
    /\ call.op = "get_clients"
    /\ Len(ret) >= 2
    /\ ret[1] > ret[2]
    /\ ret = clients[call.tag]

\* The position in l of the only entry with this op and signal, 0 if there is
\* none or more than one.
OnlyPosition(l, op, sig) ==
    LET at == {i \in 1..Len(l) : l[i].op = op /\ l[i].sig = sig}
    IN IF Cardinality(at) = 1 THEN CHOOSE i \in at : TRUE ELSE 0

\* C28: a set_activated call that changes the flag calls the desktop-count
\* sync and the desktop-names sync once each, after the registry was updated
\* (tag appended or taken) and before the one property.activated of the call.
C28_SyncsBetweenRegistryAndEvent ==
    [][(call'.op = "set_activated" /\ activated[call'.tag] # call'.val)
          => LET reg == IF call'.val THEN OnlyPosition(log', "tags_append", "")
                                     ELSE OnlyPosition(log', "tags_take", "")
                 num == OnlyPosition(log', "ewmh_update_net_numbers_of_desktop", "")
                 nam == OnlyPosition(log', "ewmh_update_net_desktop_names", "")
                 act == OnlyPosition(log', "emit_tag", "property.activated")
             IN /\ reg > 0 /\ num > 0 /\ nam > 0 /\ act > 0
                /\ reg < num /\ reg < nam
                /\ num < act /\ nam < act]_vars

\* A selected tag has been deactivated: the syncs come after the deselection too.
C28_Witness ==
    /\ call.op = "set_activated"
    /\ ~call.val
    /\ ~activated[call.tag]
    /\ OnlyPosition(log, "emit_tag", "property.selected") > 0
    /\ OnlyPosition(log, "ewmh_update_net_desktop_names", "") > 0

\* C29: a set_selected call that changes the flag invalidates banning once and
\* recomputes the workarea once for every screen of globalconf.screens, all of
\* it after tag->selected was written and before the one property.selected.
C29_WorkareaOfEveryScreen ==
    [][(call'.op = "set_selected" /\ selected[call'.tag] # call'.val)
          => LET set == OnlyPosition(log', "set_selected", "")
                 ban == OnlyPosition(log', "banning_need_update", "")
                 sel == OnlyPosition(log', "emit_tag", "property.selected")
                 area(s) == Positions(log', Ev("screen_update_workarea", "", s, 0))
             IN /\ set > 0 /\ ban > 0 /\ sel > 0
                /\ selected'[call'.tag] = call'.val
                /\ set < ban /\ ban < sel
                /\ CountOf(log', "screen_update_workarea", 0) = 0
                /\ \A s \in Screens :
                      /\ Cardinality(area(s)) = 1
                      /\ \A i \in area(s) : set < i /\ i < sel
                /\ Cardinality({i \in 1..Len(log') : log'[i].op = "screen_update_workarea"})
                      = NumScreens]_vars

\* A tag has been deselected and the workarea of the last screen was recomputed.
C29_Witness ==
    /\ call.op = "set_selected"
    /\ ~call.val
    /\ ~selected[call.tag]
    /\ Positions(log, Ev("screen_update_workarea", "", NumScreens, 0)) # {}

\* C30: tag_client on a new edge does, in this order: append to the list,
\* desktop sync of the client, banning invalidation, workarea of the client's
\* screen, signal on the client, signal on the tag (after the reference taken
\* at entry).  untag_client on a member does, in this order: take from the
\* list, banning invalidation, desktop sync of the client, workarea, signal on
\* the client, signal on the tag, and last the release of the edge's reference.
C30_StepOrder ==
    [][LET t == call'.tag
           c == call'.client
       IN /\ (call'.op = "tag_client" /\ c \notin SeqToSet(clients[t]))
                => log' = <<Ev("ref", "", t, 0),
                            Ev("append", "", t, c),
                            Ev("ewmh_client_update_desktop", "", c, 0),
                            Ev("banning_need_update", "", 0, 0),
                            Ev("screen_update_workarea", "", ClientScreen(c), 0),
                            Ev("emit_client", "tagged", c, t),
                            Ev("emit_tag", "tagged", t, c)>>
          /\ (call'.op = "untag_client" /\ c \in SeqToSet(clients[t]))
                => log' = <<Ev("take", "", t, c),
                            Ev("banning_need_update", "", 0, 0),
                            Ev("ewmh_client_update_desktop", "", c, 0),
                            Ev("screen_update_workarea", "", ClientScreen(c), 0),
                            Ev("emit_client", "untagged", c, t),
                            Ev("emit_tag", "untagged", t, c),
                            Ev("unref", "", t, 0)>>]_vars

\* A member has been untagged from a tag that keeps another member.
C30_Witness ==
    /\ call.op = "untag_client"
    /\ Len(log) = 7
    /\ clients[call.tag] # <<>>
    /\ call.client \notin SeqToSet(clients[call.tag])

\* C25: at most one callback is registered for the mouse grabber at any time,
\* and mousegrabber.run while a grabber is running raises "mousegrabber already
\* running" and leaves the registered callback, the pointer grab and the
\* references as they were.
C25_OneGrabberCallback ==
    [][/\ grabber_refs' <= 1
       /\ (grabber_refs' = 1) <=> (mousegrabber' # LUA_REFNIL)
       /\ (call'.op = "mousegrabber_run" /\ mousegrabber # LUA_REFNIL)
             => /\ err'
                /\ log' = <<Ev("luaL_error", "mousegrabber already running", 0, 0)>>
                /\ UNCHANGED <<mousegrabber, pointer_grabbed, grabber_refs>>]_vars

\* A run with another callback and a grabbable pointer was refused while the
\* first callback was registered.
C25_Witness ==
    /\ call.op = "mousegrabber_run"
    /\ call.val
    /\ err
    /\ mousegrabber \in Functions
    /\ call.R[1] \notin {<<"function", mousegrabber>>, LuaNil}
    /\ call.R[2] = LuaNil

\* C26: over any sequence of run, stop and isrunning calls, a callback is
\* registered iff the last call that wrote globalconf.mousegrabber was a run
\* that returned, and isrunning returns exactly that; a run that ends with
\* "unable to grab mouse pointer" or with the "invalid cursor" warning leaves
\* no callback registered, and so does every stop.
C26_RunningIffLastRunSucceeded ==
    [][/\ (mousegrabber' # LUA_REFNIL) <=> (last_change' = "run")
       /\ (call'.op = "mousegrabber_isrunning")
             => /\ ret' = <<last_change = "run">>
                /\ UNCHANGED grabberVars
       /\ (call'.op = "mousegrabber_stop") => mousegrabber' = LUA_REFNIL
       /\ (/\ call'.op = "mousegrabber_run"
           /\ \E i \in 1..Len(log') :
                 log'[i].sig \in {"unable to grab mouse pointer", "invalid cursor"})
             => /\ mousegrabber' = LUA_REFNIL
                /\ ~pointer_grabbed']_vars

\* isrunning has returned false after a run that could not grab the pointer.
C26_Witness ==
    /\ call.op = "mousegrabber_isrunning"
    /\ ret = <<FALSE>>
    /\ last_change = "run_failed"

\* C27: every atom has at most one registered SelectionAcquire object, and a
\* registered object holds its window and its atom.  An acquire that the X
\* server grants, for an atom that has a registered object, first releases
\* that object ("release" emitted on it, its window destroyed and cleared, its
\* table entry and its atom cleared) and then registers the new object; an
\* acquire that the server does not grant leaves the table and all other
\* objects as they were and emits nothing.
C27_OneAcquirePerSelection ==
    [][/\ \A a \in Atoms :
            LET o == luna_selection_acquires'[a]
            IN o # NoObject => sel_selection'[o] = a /\ sel_window'[o] = o
       /\ \A o \in SelObjects :
            Cardinality({a \in Atoms : luna_selection_acquires'[a] = o}) <= 1
       /\ (call'.op = "selection_acquire_new")
            => LET atom == call'.tag
                   o == call'.client
                   old == luna_selection_acquires[atom]
                   others == SelObjects \ {o, old}
               IN /\ \A p \in others : /\ sel_selection'[p] = sel_selection[p]
                                       /\ sel_window'[p] = sel_window[p]
                  /\ \A a \in Atoms \ {atom} :
                        luna_selection_acquires'[a] = luna_selection_acquires[a]
                  /\ (call'.val /\ old # NoObject)
                        => /\ log' = <<Ev("xcb_create_window", "", o, 0),
                                       Ev("xcb_set_selection_owner", "", o, atom),
                                       Ev("emit_selection", "release", old, 0),
                                       Ev("xcb_destroy_window", "", old, 0),
                                       Ev("rawset", "", atom, NoObject),
                                       Ev("rawset", "", atom, o)>>
                           /\ sel_window'[old] = XCB_NONE
                           /\ sel_selection'[old] = XCB_NONE
                           /\ luna_selection_acquires'[atom] = o
                           /\ ret' = <<o>>
                  /\ (call'.val /\ old = NoObject)
                        => /\ luna_selection_acquires'[atom] = o
                           /\ \A i \in 1..Len(log') : log'[i].op # "emit_selection"
                  /\ (~call'.val)
                        => /\ luna_selection_acquires' = luna_selection_acquires
                           /\ \A i \in 1..Len(log') : log'[i].op # "emit_selection"
                           /\ old # NoObject
                                 => /\ sel_window'[old] = sel_window[old]
                                    /\ sel_selection'[old] = sel_selection[old]
                           /\ sel_window'[o] = XCB_NONE
                           /\ ret' = <<>>]_vars

\* A second object has acquired a selection and the object registered before
\* was released.
C27_Witness ==
    /\ call.op = "selection_acquire_new"
    /\ call.val
    /\ luna_selection_acquires[call.tag] = call.client
    /\ \E i \in 1..Len(log) : log[i].op = "emit_selection"
    /\ \E old \in 1..(call.client - 1) : sel_window[old] = XCB_NONE

\* C23: a call emits ":spawn.timeout" for a startup sequence exactly when it
\* is the timeout of that sequence firing while the sequence is in sn_waits,
\* and then it emits it once; the timeout of a sequence that a completed or
\* canceled event has removed emits nothing, and no sequence gets the signal
\* more than once after it was initiated.
C23_TimeoutOnlyWhileWaiting ==
    [][\A s \in Sequences :
          LET emitted == Cardinality({i \in 1..Len(log') :
                                         log'[i] = Ev("emit_global", ":spawn.timeout", s, 0)})
              fires == call'.op = "spawn_monitor_timeout" /\ call'.tag = s
          IN /\ emitted = IF fires /\ s \in SeqToSet(sn_waits) THEN 1 ELSE 0
             /\ (fires /\ sn_monitor[s] = "ended") => emitted = 0
             /\ sn_signalled'[s] <= 1
             /\ fires => s \notin SeqToSet(sn_waits') /\ s \notin sn_timeouts']_vars

\* The timeout of a completed sequence has fired without a signal, after the
\* other sequence timed out while it was waited for.
C23_Witness ==
    /\ call.op = "spawn_monitor_timeout"
    /\ sn_monitor[call.tag] = "ended"
    /\ \A i \in 1..Len(log) : log[i].op # "emit_global"
    /\ \E s \in Sequences \ {call.tag} : sn_signalled[s] = 1 /\ sn_monitor[s] = "active"

\* What the exit callback gets for each wait status.
C24_Report ==
    [status \in Statuses |->
        CASE status = 0 -> <<"exit", 0>>
          [] status = 256 -> <<"exit", 1>>
          [] status = 9 -> <<"signal", 9>>
          [] status = 139 -> <<"signal", 11>>]

\* C24: an exit reported for a pid in running_children takes the child out of
\* the array, then calls its exit callback once with ("exit", code) or
\* ("signal", number), then drops the reference on the callback, and leaves
\* the other children alone; an exit reported for a pid that is not in the
\* array calls nothing and changes no state; no other call runs an exit
\* callback.
C24_ExitCallbackOnce ==
    [][LET calls == {i \in 1..Len(log') : log'[i].op = "luaA_dofunction"}
           tracked == {i \in 1..Len(running_children) :
                          running_children[i].pid = call'.tag}
       IN IF call'.op = "child_exited"
          THEN IF tracked # {}
               THEN LET child == running_children[CHOOSE i \in tracked : TRUE]
                        report == C24_Report[call'.R[1]]
                    IN /\ log' = <<Ev("running_child_array_remove", "", child.pid, 0),
                                   Ev("luaA_dofunction", report[1], child.exit_callback,
                                      report[2]),
                                   Ev("luaA_unregister", "", child.exit_callback, 0)>>
                       /\ running_children' =
                             SelectSeq(running_children, LAMBDA e : e.pid # child.pid)
                       /\ child_refs' = child_refs - 1
                       /\ child_refs' = Len(running_children')
               ELSE /\ calls = {}
                    /\ UNCHANGED spawnVars
          ELSE calls = {}]_vars

\* The exit of a child whose exit was already reported is reported again
\* while another child is tracked.
C24_Witness ==
    /\ call.op = "child_exited"
    /\ processes[call.tag] = "reported"
    /\ log = <<Ev("warn", "Unknown child", call.tag, call.R[1])>>
    /\ running_children # <<>>

\* set_clients as a walk over a snapshot of the list: untag_client for every
\* element of the snapshot C from position i on that is absent from R.
RECURSIVE C31_UntagSnapshot(_, _, _, _, _)
C31_UntagSnapshot(w, t, C, R, i) ==
    IF i > Len(C) THEN w
    ELSE C31_UntagSnapshot(IF C[i] \in SeqToSet(R) THEN w ELSE untag_client(w, C[i], t),
                           t, C, R, i + 1)

\* tag_client for every element of R from position k on.
RECURSIVE C31_TagEach(_, _, _, _)
C31_TagEach(w, t, R, k) ==
    IF k > Len(R) THEN w
    ELSE C31_TagEach(tag_client(w, t, R[k]), t, R, k + 1)

\* C31: with no handler connected, set_clients(t, R) with R made of clients
\* does what a walk over a snapshot of the prior list does: untag_client once
\* for each prior member absent from R, in prior storage order, and for no
\* member present in R, then tag_client once per element of R in the order of
\* R.  The trace, the lists and the reference counts are those of the walk.
C31_InPlaceLoopIsSnapshotWalk ==
    [][(call'.op = "set_clients" /\ \A i \in 1..Len(call'.R) : IsClient(call'.R[i]))
          => LET t == call'.tag
                 C == clients[t]
                 R == call'.R
                 takes == SelectSeq(log', LAMBDA e : e.op = "take")
             IN /\ \E w \in {C31_TagEach(C31_UntagSnapshot(World, t, C, R, 1), t, R, 1)} :
                      /\ log' = w.log
                      /\ clients' = w.clients
                      /\ refs' = w.refs
                /\ takes = [i \in 1..Len(takes) |->
                               Ev("take", "", t, Filter(C, SeqToSet(R), FALSE)[i])]
                /\ Len(takes) = Len(Filter(C, SeqToSet(R), FALSE))
                /\ CountOf(log', "ref", t) = Len(R)]_vars

\* A call with an empty table untagged two members, the first before the second.
C31_Witness ==
    /\ call.op = "set_clients"
    /\ ~err
    /\ \E c1, c2 \in Clients :
          /\ c1 # c2
          /\ SelectSeq(log, LAMBDA e : e.op = "take")
                = <<Ev("take", "", call.tag, c1), Ev("take", "", call.tag, c2)>>

\* C32: with no handler connected, set_clients(t, R) with R made of clients
\* returns, after at most |C| iterations of the removal loop, C being the list
\* at entry, each of which untags a member or steps over a member that stays,
\* and after |R| iterations of the addition loop.
C32_PassesAreBounded ==
    [][(call'.op = "set_clients" /\ \A i \in 1..Len(call'.R) : IsClient(call'.R[i]))
          => LET C == clients[call'.tag]
                 R == call'.R
             IN /\ ~hung'
                /\ iterations'[1] <= Len(C)
                /\ iterations'[1] = CountOf(log', "take", call'.tag)
                                    + Len(Filter(C, SeqToSet(R), TRUE))
                /\ iterations'[2] = Len(R)]_vars

\* A call went through a list of two members, untagged one of them and
\* tagged the two elements of its table.
C32_Witness ==
    /\ call.op = "set_clients"
    /\ iterations = <<2, 2>>
    /\ CountOf(log, "take", call.tag) = 1
    /\ ~hung

\* C33: set_clients(t, R) with an element of R that is no client raises the
\* type error and removes no member of any tag: nothing is taken out of a
\* list and no "untagged" is emitted.  What the call has changed when it
\* raises are members added at the end of t's list, each of them an element
\* of R that comes before the first element that is no client, and the
\* references of these edges.
C33_BadTableRemovesNothing ==
    [][(call'.op = "set_clients" /\ \E i \in 1..Len(call'.R) : ~IsClient(call'.R[i]))
          => LET t == call'.tag
                 P == ValidPrefix(call'.R)
                 n == Len(clients[t])
             IN /\ err'
                /\ \A i \in 1..Len(log') :
                      log'[i].op # "take" /\ log'[i].sig # "untagged"
                /\ Len(clients'[t]) >= n
                /\ SubSeq(clients'[t], 1, n) = clients[t]
                /\ \A i \in (n + 1)..Len(clients'[t]) : clients'[t][i] \in SeqToSet(P)
                /\ \A u \in Tags \ {t} : clients'[u] = clients[u]
                /\ refs' = [refs EXCEPT ![t] = @ + Len(clients'[t]) - n]
                /\ UNCHANGED <<activated, selected, name, tags>>]_vars

\* The call raised in the removal pass, at a member that no element before
\* the offending one names: the member stays and nothing was added.
C33_Witness ==
    /\ call.op = "set_clients"
    /\ err
    /\ \E c \in SeqToSet(clients[call.tag]) : c \notin SeqToSet(call.R)
    /\ Len(call.R) = 2
    /\ IsClient(call.R[1])
    /\ CountOf(log, "append", call.tag) = 0

\* C34: deactivating a tag leaves every clients list as it was, takes no
\* client out and emits no "untagged"; a tag that is not activated and has a
\* member keeps one core-held reference per member, so its count is positive.
C34_DeactivationKeepsMembers ==
    [][/\ (call'.op = "set_activated" /\ ~call'.val)
             => /\ clients' = clients
                /\ \A i \in 1..Len(log') :
                      log'[i].op # "take" /\ log'[i].sig # "untagged"
       /\ \A t \in Tags :
             (~activated'[t] /\ clients'[t] # <<>>)
                => refs'[t] > 0 /\ refs'[t] = Len(clients'[t])]_vars

\* An activated tag with a member was deactivated: it left the registry and
\* the reference of its edge is the one left.
C34_Witness ==
    /\ call.op = "set_activated"
    /\ ~call.val
    /\ CountOf(log, "tags_take", call.tag) = 1
    /\ clients[call.tag] # <<>>
    /\ refs[call.tag] = Len(clients[call.tag])

\* C35: tag_client, untag_client and set_clients on a tag t change no other
\* tag's clients list and no other tag's reference count, and leave
\* globalconf.tags and the name, selected and activated fields of every tag,
\* t included, as they were.
C35_MembershipFrame ==
    [][(call'.op \in {"tag_client", "untag_client", "set_clients"})
          => /\ \A u \in Tags \ {call'.tag} :
                   clients'[u] = clients[u] /\ refs'[u] = refs[u]
             /\ UNCHANGED <<tags, name, selected, activated>>]_vars

\* A client was untagged from one of the two tags it was a member of, with a
\* tag activated and selected.
C35_Witness ==
    /\ call.op = "untag_client"
    /\ CountOf(log, "take", call.tag) = 1
    /\ \E u \in Tags \ {call.tag} : call.client \in SeqToSet(clients[u])
    /\ \E u \in Tags : activated[u] /\ selected[u]

\* C36: setting the name of a tag to a string changes the name of that tag
\* and nothing else: globalconf.tags, the flags, the lists, the reference
\* counts and the names of the other tags stay.  Every such call, also one
\* that sets the name the tag has already or the name of another tag, emits
\* property.name on the tag once and then syncs the desktop names once.
C36_NameSetterFrame ==
    [][(call'.op = "set_name")
          => LET t == call'.tag
             IN /\ name' = [name EXCEPT ![t] = call'.R[1][2]]
                /\ UNCHANGED <<tags, selected, activated, clients, refs>>
                /\ log' = <<Ev("set_name", "", t, 0),
                            Ev("emit_tag", "property.name", t, 0),
                            Ev("ewmh_update_net_desktop_names", "", 0, 0)>>
                /\ ~err']_vars

\* An activated and selected tag was given the name another tag has.
C36_Witness ==
    /\ call.op = "set_name"
    /\ \E u \in Tags \ {call.tag} : name[u] = name[call.tag]
    /\ activated[call.tag]
    /\ selected[call.tag]
    /\ Len(Emits(log)) = 1

\* C37: a sequence in sn_waits has its timeout pending, and every sequence
\* that is in sn_waits is out of it at some later time: a completed or
\* canceled event takes it out, and if none comes its timeout does.
C37_WaitingEnds ==
    /\ [](\A s \in Sequences : s \in SeqToSet(sn_waits) => s \in sn_timeouts)
    /\ \A s \in Sequences :
          (s \in SeqToSet(sn_waits)) ~> (s \notin SeqToSet(sn_waits))

\* The timeout took out of sn_waits a sequence that no event had ended, while
\* the other sequence stays waited for.
C37_Witness ==
    /\ call.op = "spawn_monitor_timeout"
    /\ sn_monitor[call.tag] = "active"
    /\ call.tag \notin SeqToSet(sn_waits)
    /\ sn_waits # <<>>
    /\ \E i \in 1..Len(log) : log[i] = Ev("emit_global", ":spawn.timeout", call.tag, 0)

\* C38: no SelectionAcquire object gets the "release" signal more than once,
\* whatever release calls, SelectionClear events and acquires of its
\* selection follow one another; and an object that was released holds no
\* window, so a SelectionClear for its former window releases nothing and a
\* SelectionRequest for it is rejected.
C38_ReleaseAtMostOnce ==
    [][/\ \A o \in SelObjects : sel_releases'[o] <= 1
       /\ (call'.op = "selectionclear" /\ sel_releases[call'.client] >= 1)
             => log' = <<>>
       /\ (call'.op = "selectionrequest" /\ sel_releases[call'.client] >= 1)
             => log' = <<Ev("selection_transfer_reject", "", call'.client, 0)>>]_vars

\* C39: after any sequence of assignments to visible, a drawin is in
\* globalconf.drawins iff its visible flag is set, it is there at most once,
\* and the core holds one reference on it while it is visible and none while
\* it is not, so that no visible drawin is collected; an assignment of the
\* value the flag has changes nothing and emits nothing.
C39_VisibleIffListed ==
    [][/\ \A d \in Drawins :
             /\ drawin_visible'[d] <=> d \in SeqToSet(drawins')
             /\ Cardinality({i \in 1..Len(drawins') : drawins'[i] = d}) <= 1
             /\ drawin_refs'[d] = IF drawin_visible'[d] THEN 1 ELSE 0
             /\ drawin_visible'[d] => drawin_window'[d] # XCB_NONE
       /\ (call'.op = "drawin_gc") => ~drawin_visible[call'.client]
       /\ (/\ call'.op = "drawin_set_visible"
           /\ call'.R[1] = <<"boolean", drawin_visible[call'.client]>>)
             => /\ log' = <<>>
                /\ UNCHANGED drawinVars]_vars

\* A drawin that the script let go of while it was visible stays in the list,
\* and an assignment of TRUE to the other visible drawin has done nothing.
C39_Witness ==
    /\ call.op = "drawin_set_visible"
    /\ call.R[1] = <<"boolean", TRUE>>
    /\ log = <<>>
    /\ Len(drawins) = 2
    /\ \E d \in Drawins : ~drawin_held[d] /\ drawin_visible[d]

====
